---- MODULE Spec2Model ----
(***************************************************************************)
(* Points ledger and redemption lifecycle of the loyalty-program backend.  *)
(*                                                                         *)
(* The document store is modelled by the variables visits, redemptions,    *)
(* rewards, businesses and customers.  A request handler is a sequence of  *)
(* atomic steps, one per awaited database call; the steps of different     *)
(* requests interleave freely.  A document kept in a handler's memory is   *)
(* a copy: it does not follow later changes of the stored record.          *)
(*                                                                         *)
(* save() of a document runs the schema's pre('save') hook on it, writes    *)
(* it (an insert under the collection's unique index when isNew, otherwise *)
(* a $set of the modified paths) and then runs the post('save') hook.      *)
(* The validators of the Visit and Redemption paths (required, min, enum) *)
(* are not part of the model: a document that reaches the write is taken   *)
(* to pass them.  The validators of the Reward paths and of the updated    *)
(* paths of a visit or of the loyalty settings are modelled.               *)
(*                                                                         *)
(* Time is a natural number; one unit is thirty days.  The weekday and the *)
(* time of day are a separate wall clock.  Request bodies are objects of   *)
(* document fields.                                                        *)
(***************************************************************************)
EXTENDS Integers, Sequences, FiniteSets, TLC

\* ------------------------------------------------------------ bounds
MaxTime == 2
MaxVisits == 2
MaxRedemptions == 2
MaxClock == 6

\* ------------------------------------------------------------ constants
\* 30 days (30 * 24 * 60 * 60 * 1000 ms) in clock units of thirty days
ThirtyDays == 1
\* Business.loyaltySettings.pointsPerVisit: the schema default
PointsPerVisit == 10

\* parseInt(process.env.OTP_EXPIRE_MINUTES) || 5
DefaultOtpExpireMinutes == 5
\* the lifetime that resendOTP assumes, in minutes (5 * 60 * 1000 ms)
ResendAssumedMinutes == 5
\* the resendOTP cooldown in minutes (60 * 1000 ms)
CooldownMinutes == 1
\* otp.attempts at which verifyOTP stops comparing codes
MaxAttempts == 3

Unset == 0 - 1          \* an unset Date or Number (undefined / null)
NoCode == ""            \* an unset redemptionCode
NoOne == "none"         \* an unset ObjectId reference

Customers == {"c1", "c2"}
Businesses == {"b1", "b2"}
RewardIds == {"r1"}
MissingRewardId == "r0"
Procs == {"p1", "p2"}
FirstProc == "p1"
FirstCustomer == "c1"
FirstBusiness == "b1"
FirstReward == "r1"
Markers == {"m1"}
ConcurrentMarkers == {"m1", "m2"}
Codes == {"A", "B"}
OtpCodes == {"111111", "222222"}
OtpExpireMinutesValues == {1, 5, 10}
\* raw phone numbers as requests carry them
Phone1Local == <<"5", "5", "5", "0", "1", "0", "0", "0", "0", "1">>
Phone1Written == <<"(", "5", "5", "5", ")", " ", "0", "1", "0", "-", "0", "0", "0", "1">>
Phone1Full == <<"+", "1", "5", "5", "5", "0", "1", "0", "0", "0", "0", "1">>
Phone2Local == <<"5", "5", "5", "0", "1", "0", "0", "0", "0", "2">>
PhoneShort == <<"5", "5", "5", "0", "1", "0">>
\* pointsMultiplier in tenths: 1.0 and 1.5
Multipliers == {10, 15}
\* pointsMultiplier || 1
DefaultMultiplier == 10
PointsRequiredValues == {10, 15}
Amounts == {Unset, 5}
\* (transactionAmount, discountApplied) given to markAsUsed
MarkAmounts == {<<Unset, Unset>>, <<5, 1>>}

VARIABLES now, visits, redemptions, rewards, businesses, customers, req, mark,
          wallClock, rewardAns, ver, accounts, clock, otpExpireMinutes, reg, ans,
          phone,
          web,
          otpReq,
          compared

\* the records and the redeemReward / markAsUsed calls in progress
storeVars == <<now, visits, redemptions, rewards, businesses, customers, req, mark>>
\* the weekday and the time of day, and the answer of the last createReward,
\* updateReward, updateVisit or updateLoyaltySettings request
calendarVars == <<wallClock>>
adminVars == <<rewardAns>>
\* the answer of the last verifyRedemption request
verifyVars == <<ver>>
\* the customers' phone numbers and one-time passwords, the clock in minutes,
\* OTP_EXPIRE_MINUTES, the registerCustomer requests in progress and the
\* answer of the last verifyOTP / resendOTP request
accountVars == <<accounts, clock, otpExpireMinutes, reg, ans>>

\* a phone number as received and what normalizePhoneNumber makes of it
phoneVars == <<phone>>

\* the answer to the last GET request on the reward router
webVars == <<web>>

\* the verifyOTP requests in flight, and the record of the wrong codes that
\* were compared with a customer's stored code
otpReqVars == <<otpReq, compared>>

\* what the redeemReward, markAsUsed, recordVisit and sweep steps leave alone
otherVars == <<calendarVars, adminVars, verifyVars, accountVars, phoneVars,
              webVars,
              otpReqVars>>

vars == <<storeVars, otherVars>>

\* ------------------------------------------------------------ helpers
RECURSIVE SumPointsEarned(_)
SumPointsEarned(vs) ==
  IF vs = <<>> THEN 0 ELSE Head(vs).pointsEarned + SumPointsEarned(Tail(vs))

RECURSIVE SumPointsUsed(_)
SumPointsUsed(rs) ==
  IF rs = <<>> THEN 0 ELSE Head(rs).pointsUsed + SumPointsUsed(Tail(rs))

\* Visit.aggregate([{$match: {customer, business}}, {$group: {$sum: '$pointsEarned'}}])
\* followed by  length > 0 ? totalPoints : 0
VisitPoints(c, b) ==
  SumPointsEarned(SelectSeq(visits, LAMBDA v : v.customer = c /\ v.business = b))

\* ------------------------------------------------------------ Reward
\* JavaScript truthiness of a Number field whose unset value is null
Truthy(n) == n # Unset /\ n # 0

\* rewardSchema.virtual('isCurrentlyValid')
isCurrentlyValid(rw, t) ==
  IF ~rw.isActive THEN FALSE
  ELSE IF rw.validFrom # Unset /\ t < rw.validFrom THEN FALSE
  ELSE IF rw.validUntil # Unset /\ t > rw.validUntil THEN FALSE
  ELSE IF Truthy(rw.maxTotalRedemptions)
          /\ rw.totalRedemptions >= rw.maxTotalRedemptions THEN FALSE
  ELSE TRUE

\* Redemption.countDocuments({customer, reward})
CustomerRedemptions(c, rid) ==
  Cardinality({i \in DOMAIN redemptions :
                 redemptions[i].customer = c /\ redemptions[i].reward = rid})

\* Times of day are the sequences of the characters of "HH:MM".
NoTime == <<>>
Noon == <<"1", "2", ":", "0", "0">>

\* the order of the characters of a time of day by their code units
CharOrder == <<"0", "1", "2", "3", "4", "5", "6", "7", "8", "9", ":">>

CodeUnit(c) == CHOOSE i \in DOMAIN CharOrder : CharOrder[i] = c

\* a < b on strings
RECURSIVE StringLess(_, _)
StringLess(a, b) ==
  IF b = <<>> THEN FALSE
  ELSE IF a = <<>> THEN TRUE
  ELSE IF Head(a) = Head(b) THEN StringLess(Tail(a), Tail(b))
  ELSE CodeUnit(Head(a)) < CodeUnit(Head(b))

\* the weekday names of the en-US locale
WeekdayNames ==
  [ monday    |-> [long |-> "Monday",    short |-> "Mon", narrow |-> "M"],
    tuesday   |-> [long |-> "Tuesday",   short |-> "Tue", narrow |-> "T"],
    wednesday |-> [long |-> "Wednesday", short |-> "Wed", narrow |-> "W"],
    thursday  |-> [long |-> "Thursday",  short |-> "Thu", narrow |-> "T"],
    friday    |-> [long |-> "Friday",    short |-> "Fri", narrow |-> "F"],
    saturday  |-> [long |-> "Saturday",  short |-> "Sat", narrow |-> "S"],
    sunday    |-> [long |-> "Sunday",    short |-> "Sun", narrow |-> "S"] ]

Weekdays == DOMAIN WeekdayNames

\* new Date().toLocaleDateString('en-US', {weekday}): the option accepts
\* 'narrow', 'short' and 'long' and throws a RangeError for any other value
toLocaleDateString(day, weekday) ==
  IF weekday \in {"narrow", "short", "long"}
  THEN WeekdayNames[day][weekday] ELSE "RangeError"

\* rewardSchema.methods.isAvailableForCustomer at the weekday and time of
\* day wc: "yes", "no", or "throw" when the weekday lookup throws
isAvailableForCustomer(rw, rid, c, t, wc) ==
  LET today == toLocaleDateString(wc.day, "lowercase")
  IN  IF ~isCurrentlyValid(rw, t) THEN "no"
      ELSE IF Truthy(rw.maxRedemptionsPerCustomer)
              /\ CustomerRedemptions(c, rid) >= rw.maxRedemptionsPerCustomer THEN "no"
      ELSE IF rw.availableDays # {} /\ today = "RangeError" THEN "throw"
      ELSE IF rw.availableDays # {} /\ today \notin rw.availableDays THEN "no"
      ELSE IF rw.availableTimeStart # NoTime /\ rw.availableTimeEnd # NoTime
              /\ (StringLess(wc.time, rw.availableTimeStart)
                    \/ StringLess(rw.availableTimeEnd, wc.time)) THEN "no"
      ELSE "yes"

\* ------------------------------------------------------------ Redemption
\* a variant of the constructor call that leaves status to the schema default
NewRedemptionDefaultStatus(c, rw, rid, amount, t) ==
  [ customer |-> c, business |-> rw.business, reward |-> rid,
    pointsUsed |-> rw.pointsRequired, redemptionDate |-> t,
    status |-> "pending", redemptionCode |-> NoCode, expiresAt |-> Unset,
    usedAt |-> Unset, usedBy |-> NoOne,
    transactionAmount |-> amount, discountApplied |-> Unset ]

\* new Redemption({customer, business, reward, pointsUsed, transactionAmount,
\*                 status: 'confirmed'}) with the schema defaults
NewRedemption(c, rw, rid, amount, t) ==
  [ customer |-> c, business |-> rw.business, reward |-> rid,
    pointsUsed |-> rw.pointsRequired, redemptionDate |-> t,
    status |-> "confirmed", redemptionCode |-> NoCode, expiresAt |-> Unset,
    usedAt |-> Unset, usedBy |-> NoOne,
    transactionAmount |-> amount, discountApplied |-> Unset ]

\* a variant of the hook without the isNew guard: every save draws a code
PreSaveRedemptionEverySave(doc, isNew, code, t) ==
  LET d1 == [doc EXCEPT !.redemptionCode = code]
  IN  IF d1.expiresAt = Unset
      THEN [d1 EXCEPT !.expiresAt = t + ThirtyDays] ELSE d1

\* redemptionSchema.pre('save'); code is the generator's draw
PreSaveRedemption(doc, isNew, code, t) ==
  IF isNew
  THEN LET d1 == IF doc.redemptionCode = NoCode
                 THEN [doc EXCEPT !.redemptionCode = code] ELSE doc
       IN  IF d1.expiresAt = Unset
           THEN [d1 EXCEPT !.expiresAt = t + ThirtyDays] ELSE d1
  ELSE doc

\* a variant of the collection without the unique index on redemptionCode
DuplicateKeyNoIndex(rs, doc) == FALSE

\* the unique index on redemptionCode refuses the insert
DuplicateKey(rs, doc) ==
  \E i \in DOMAIN rs : rs[i].redemptionCode = doc.redemptionCode

\* doc.isNew as redemptionSchema.post('save') reads it.  The hook runs after
\* the write, and a document stops being new once its insert has been issued
\* (it is set back to new only when the insert fails), so the hook reads
\* false whether or not the document was new when save() was called.
IsNewInPostSave(wasNew) == FALSE

\* redemptionSchema.post('save'): the amount added to each totalRedemptions
PostSaveIncrement(isNew) == IF isNew THEN 1 ELSE 0

\* a variant of isValid that does not look at expiresAt
isValidIgnoringExpiry(doc, t) ==
  doc.status = "confirmed" /\ doc.usedAt = Unset

\* redemptionSchema.methods.isValid
isValid(doc, t) ==
  doc.status = "confirmed" /\ doc.expiresAt > t /\ doc.usedAt = Unset

\* the assignments of redemptionSchema.methods.markAsUsed on a valid document
markAsUsedAssign(doc, usedBy, transactionAmount, discountApplied, t) ==
  LET d1 == [doc EXCEPT !.status = "used", !.usedAt = t, !.usedBy = usedBy]
      d2 == IF transactionAmount # Unset
            THEN [d1 EXCEPT !.transactionAmount = transactionAmount] ELSE d1
  IN  IF discountApplied # Unset
      THEN [d2 EXCEPT !.discountApplied = discountApplied] ELSE d2

\* a variant of the filter without the status condition
ShouldExpireAnyStatus(r, t) == r.expiresAt < t

\* a variant of the filter without the date condition
ShouldExpireAnyDate(r, t) == r.status \in {"pending", "confirmed"}

\* the filter of expireOldRedemptions
ShouldExpire(r, t) == r.status \in {"pending", "confirmed"} /\ r.expiresAt < t

\* save() of an existing document: $set of the paths that were modified
\* since the document was loaded
RedemptionFields ==
  {"customer", "business", "reward", "pointsUsed", "redemptionDate", "status",
   "redemptionCode", "expiresAt", "usedAt", "usedBy", "transactionAmount",
   "discountApplied"}

SetModifiedPaths(stored, orig, doc) ==
  [f \in RedemptionFields |-> IF doc[f] # orig[f] THEN doc[f] ELSE stored[f]]

\* ------------------------------------------------------------ ledger
\* getPointsBalance: availablePoints of the entry of business b, for a
\* customer who has visits at b
RedemptionPointsUsed(c, b) ==
  SumPointsUsed(SelectSeq(redemptions, LAMBDA r : r.customer = c /\ r.business = b))

availablePoints(c, b) == VisitPoints(c, b) - RedemptionPointsUsed(c, b)

HasVisited(c, b) == \E i \in DOMAIN visits : visits[i].customer = c /\ visits[i].business = b

\* ------------------------------------------------------------ phone numbers
\* A phone number is the sequence of its characters.
Digits == {"0", "1", "2", "3", "4", "5", "6", "7", "8", "9"}

NoPhone == <<>>

StartsWith(s, c) == Len(s) > 0 /\ s[1] = c

\* a variant of the cleaning below without its first case, the number that
\* already starts with +
cleanPhoneNumberPlusAgain(phoneNumber) ==
  LET cleaned == SelectSeq(phoneNumber, LAMBDA c : c \in Digits \cup {"+"})
  IN  IF phoneNumber = <<>> THEN <<>>
      ELSE IF StartsWith(cleaned, "1") /\ Len(cleaned) = 11 THEN <<"+">> \o cleaned
      ELSE IF Len(cleaned) = 10 THEN <<"+", "1">> \o cleaned
      ELSE IF Len(cleaned) > 10 THEN <<"+">> \o cleaned
      ELSE cleaned

\* PhoneValidator.cleanPhoneNumber
cleanPhoneNumber(phoneNumber) ==
  LET cleaned == SelectSeq(phoneNumber, LAMBDA c : c \in Digits \cup {"+"})
  IN  IF phoneNumber = <<>> THEN <<>>
      ELSE IF StartsWith(cleaned, "+") THEN cleaned
      ELSE IF StartsWith(cleaned, "1") /\ Len(cleaned) = 11 THEN <<"+">> \o cleaned
      ELSE IF Len(cleaned) = 10 THEN <<"+", "1">> \o cleaned
      ELSE IF Len(cleaned) > 10 THEN <<"+">> \o cleaned
      ELSE cleaned

\* patterns.INTERNATIONAL: /^\+?[\d\s\-\(\)]{10,}$/
MatchesInternational(s) ==
  LET rest == IF StartsWith(s, "+") THEN Tail(s) ELSE s
  IN  /\ Len(rest) >= 10
      /\ \A i \in DOMAIN rest : rest[i] \in Digits \cup {" ", "-", "(", ")"}

\* PhoneValidator.isValidPhoneNumber
isValidPhoneNumber(phoneNumber) ==
  /\ phoneNumber # <<>>
  /\ LET cleaned == cleanPhoneNumber(phoneNumber)
     IN  MatchesInternational(cleaned) /\ Len(cleaned) >= 10

\* what a call of normalizePhoneNumber gives: "null", "throw", or "value"
\* with the string returned; "none" before the call
NoResult == [ outcome |-> "none", value |-> NoPhone ]

\* PhoneValidator.normalizePhoneNumber
normalizePhoneNumber(phoneNumber) ==
  IF phoneNumber = <<>> THEN [ outcome |-> "null", value |-> NoPhone ]
  ELSE LET cleaned == cleanPhoneNumber(phoneNumber)
       IN  IF ~isValidPhoneNumber(cleaned)
           THEN [ outcome |-> "throw", value |-> NoPhone ]
           ELSE [ outcome |-> "value", value |-> cleaned ]

\* no phone number has been received
NoCall == [ input |-> NoPhone, first |-> NoResult, second |-> NoResult,
            bare |-> NoResult ]

\* PhoneValidator.validateAndNormalize: [isValid, normalized]
validateAndNormalize(phoneNumber) ==
  IF phoneNumber = <<>> THEN [isValid |-> FALSE, normalized |-> NoPhone]
  ELSE LET cleaned == cleanPhoneNumber(phoneNumber)
       IN  IF isValidPhoneNumber(cleaned)
           THEN [isValid |-> TRUE, normalized |-> cleaned]
           ELSE [isValid |-> FALSE, normalized |-> NoPhone]

\* ------------------------------------------------------------ one-time passwords
\* customer.otp after this.otp = undefined, and before any OTP was generated
NoOtp == [code |-> NoCode, expiresAt |-> Unset, attempts |-> Unset]

\* customerSchema.methods.generateOTP: the new value of this.otp
generateOTP(code, minutes, t) ==
  [code |-> code, expiresAt |-> t + minutes, attempts |-> 0]

\* a variant of verifyOTP that compares the code before it looks at attempts
verifyOTPCodeFirst(c, inputOTP, t) ==
  IF c.otp.code = NoCode
  THEN [doc |-> c, success |-> FALSE, message |-> "No OTP found"]
  ELSE IF c.otp.expiresAt < t
  THEN [doc |-> c, success |-> FALSE, message |-> "OTP has expired"]
  ELSE IF c.otp.code = inputOTP
  THEN [doc |-> [c EXCEPT !.isPhoneVerified = TRUE, !.otp = NoOtp], success |-> TRUE,
        message |-> "Phone number verified successfully"]
  ELSE IF c.otp.attempts >= MaxAttempts
  THEN [doc |-> c, success |-> FALSE,
        message |-> "Too many attempts. Please request a new OTP"]
  ELSE [doc |-> [c EXCEPT !.otp.attempts = @ + 1], success |-> FALSE,
        message |-> "Invalid OTP"]

\* a variant of verifyOTP that looks at the attempts before the expiry
verifyOTPAttemptsFirst(c, inputOTP, t) ==
  IF c.otp.code = NoCode
  THEN [doc |-> c, success |-> FALSE, message |-> "No OTP found"]
  ELSE IF c.otp.attempts >= MaxAttempts
  THEN [doc |-> c, success |-> FALSE,
        message |-> "Too many attempts. Please request a new OTP"]
  ELSE IF c.otp.expiresAt < t
  THEN [doc |-> c, success |-> FALSE, message |-> "OTP has expired"]
  ELSE IF c.otp.code # inputOTP
  THEN [doc |-> [c EXCEPT !.otp.attempts = @ + 1], success |-> FALSE,
        message |-> "Invalid OTP"]
  ELSE [doc |-> [c EXCEPT !.isPhoneVerified = TRUE, !.otp = NoOtp], success |-> TRUE,
        message |-> "Phone number verified successfully"]

\* a variant of verifyOTP that keeps this.otp after a successful verification
verifyOTPKeepingOtp(c, inputOTP, t) ==
  IF c.otp.code = NoCode
  THEN [doc |-> c, success |-> FALSE, message |-> "No OTP found"]
  ELSE IF c.otp.expiresAt < t
  THEN [doc |-> c, success |-> FALSE, message |-> "OTP has expired"]
  ELSE IF c.otp.attempts >= MaxAttempts
  THEN [doc |-> c, success |-> FALSE,
        message |-> "Too many attempts. Please request a new OTP"]
  ELSE IF c.otp.code # inputOTP
  THEN [doc |-> [c EXCEPT !.otp.attempts = @ + 1], success |-> FALSE,
        message |-> "Invalid OTP"]
  ELSE [doc |-> [c EXCEPT !.isPhoneVerified = TRUE], success |-> TRUE,
        message |-> "Phone number verified successfully"]

\* customerSchema.methods.verifyOTP on the document c: the document after the
\* call and the returned {success, message}
verifyOTPMethod(c, inputOTP, t) ==
  IF c.otp.code = NoCode
  THEN [doc |-> c, success |-> FALSE, message |-> "No OTP found"]
  ELSE IF c.otp.expiresAt < t
  THEN [doc |-> c, success |-> FALSE, message |-> "OTP has expired"]
  ELSE IF c.otp.attempts >= MaxAttempts
  THEN [doc |-> c, success |-> FALSE,
        message |-> "Too many attempts. Please request a new OTP"]
  ELSE IF c.otp.code # inputOTP
  THEN [doc |-> [c EXCEPT !.otp.attempts = @ + 1], success |-> FALSE,
        message |-> "Invalid OTP"]
  ELSE [doc |-> [c EXCEPT !.isPhoneVerified = TRUE, !.otp = NoOtp], success |-> TRUE,
        message |-> "Phone number verified successfully"]

\* OTPService.verifyOTP(storedOTP, inputOTP, expiresAt, attempts) at time t:
\* the code of its result
otpServiceVerifyOTP(storedOTP, inputOTP, expiresAt, attempts, t) ==
  IF storedOTP = NoCode THEN "NO_OTP"
  ELSE IF t > expiresAt THEN "EXPIRED"
  ELSE IF attempts >= MaxAttempts THEN "TOO_MANY_ATTEMPTS"
  ELSE IF storedOTP # inputOTP THEN "INVALID_OTP"
  ELSE "VERIFIED"

\* Customer.findOne({phoneNumber}): the position of the record, 0 when none
FindCustomer(as, phoneNumber) ==
  IF \E i \in DOMAIN as : as[i].phoneNumber = phoneNumber
  THEN CHOOSE i \in DOMAIN as : as[i].phoneNumber = phoneNumber
  ELSE 0

\* a variant of the customers collection without the unique index
DuplicatePhoneNoIndex(as, phoneNumber) == FALSE

\* the unique index on phoneNumber refuses the insert
DuplicatePhone(as, phoneNumber) ==
  \E i \in DOMAIN as : as[i].phoneNumber = phoneNumber

\* ------------------------------------------------------------ initial state
\* no registerCustomer request
IdleReg == [ pc |-> "idle", phoneNumber |-> NoPhone, id |-> 0, status |-> 0,
             message |-> "" ]

\* a verifyOTP request that holds no customer document (yet)
NoCustomerDoc == [phoneNumber |-> NoPhone, isPhoneVerified |-> FALSE, otp |-> NoOtp]

\* a request slot of the verifyOTP handler that serves no request
IdleVerify == [ pc |-> "idle", id |-> 0, customer |-> NoCustomerDoc, otp |-> NoCode,
                status |-> 0, message |-> "" ]

\* no verifyOTP or resendOTP request has been answered
NoAuthAnswer == [ op |-> "", phoneNumber |-> NoPhone, otp |-> NoCode, status |-> 0,
                  message |-> "", retryAfter |-> Unset ]

\* a handler's local that holds no document yet (let reward; let redemption;)
NoReward ==
  [ business |-> NoOne, pointsRequired |-> Unset, isActive |-> FALSE,
    maxRedemptionsPerCustomer |-> Unset, maxTotalRedemptions |-> Unset,
    validFrom |-> Unset, validUntil |-> Unset, availableDays |-> {},
    availableTimeStart |-> NoTime, availableTimeEnd |-> NoTime,
    totalRedemptions |-> Unset ]

NoRedemption ==
  [ customer |-> NoOne, business |-> NoOne, reward |-> NoOne,
    pointsUsed |-> Unset, redemptionDate |-> Unset,
    status |-> "", redemptionCode |-> NoCode, expiresAt |-> Unset,
    usedAt |-> Unset, usedBy |-> NoOne,
    transactionAmount |-> Unset, discountApplied |-> Unset ]

IdleReq ==
  [ pc |-> "idle", customer |-> NoOne, rewardId |-> NoOne, amount |-> Unset,
    reward |-> NoReward, points |-> Unset, doc |-> NoRedemption, id |-> 0,
    status |-> 0, message |-> "", error |-> "", racedWith |-> NoOne ]

IdleMark ==
  [ pc |-> "idle", id |-> 0, orig |-> NoRedemption, doc |-> NoRedemption,
    result |-> "" ]

\* no request of a business's administration has been answered
NoRewardAnswer == [ op |-> "", rewardId |-> NoOne, status |-> 0, message |-> "" ]

\* the bearer of a request: a business, a customer, or nobody
NoToken == [ type |-> "none", id |-> NoOne ]

Response(handler, status, message) ==
  [ handler |-> handler, status |-> status, message |-> message,
    redemptions |-> {}, rewards |-> {} ]

NoResponse ==
  [ path |-> <<>>, token |-> NoToken, response |-> Response("", 0, "") ]

\* no verifyRedemption request has been answered
NoAnswer == [ business |-> NoOne, code |-> NoCode, status |-> 0, message |-> "",
              isValid |-> FALSE ]

InitReward(b) ==
  [ business |-> b, pointsRequired |-> 10, isActive |-> TRUE,
    maxRedemptionsPerCustomer |-> Unset, maxTotalRedemptions |-> Unset,
    validFrom |-> 0, validUntil |-> Unset, availableDays |-> {},
    availableTimeStart |-> NoTime, availableTimeEnd |-> NoTime,
    totalRedemptions |-> 0 ]

\* the state after construction, with the phone number ph received
InitWith(ph) ==
  /\ now = 0
  /\ visits = <<>>
  /\ redemptions = <<>>
  /\ rewards = [r \in RewardIds |-> InitReward(FirstBusiness)]
  /\ businesses = [b \in Businesses |->
       [ pointsPerVisit |-> PointsPerVisit, totalCustomers |-> 0,
         totalVisits |-> 0, totalPointsIssued |-> 0, totalRedemptions |-> 0 ]]
  /\ customers = [c \in Customers |->
       [ totalVisits |-> 0, totalPointsEarned |-> 0, totalRedemptions |-> 0 ]]
  /\ req = [p \in Procs |-> IdleReq]
  /\ mark = [m \in ConcurrentMarkers |-> IdleMark]
  /\ wallClock = [day |-> "monday", time |-> Noon]
  /\ rewardAns = NoRewardAnswer
  /\ ver = NoAnswer
  /\ accounts = <<>>
  /\ clock = 0
  /\ otpExpireMinutes = DefaultOtpExpireMinutes
  /\ reg = [p \in Procs |-> IdleReg]
  /\ ans = NoAuthAnswer
  /\ phone = ph
  /\ otpReq = [p \in Procs |-> IdleVerify]
  /\ compared = <<>>
  /\ web = NoResponse

Init == InitWith(NoCall)

\* ------------------------------------------------------------ time
Tick ==
  /\ now < MaxTime
  /\ now' = now + 1
  /\ UNCHANGED <<visits, redemptions, rewards, businesses, customers, req, mark, otherVars>>

\* ------------------------------------------------------------ recordVisit
\* visitSchema.pre('save') for a new visit whose pointsEarned is not set:
\* Math.floor(pointsPerVisit * pointsMultiplier), the multiplier in tenths
ComputePointsEarned(pointsPerVisit, multiplier) == (pointsPerVisit * multiplier) \div 10

VisitsOfCustomer(vs, c) == SelectSeq(vs, LAMBDA v : v.customer = c)
VisitsOfBusiness(vs, b) == SelectSeq(vs, LAMBDA v : v.business = b)

\* recordVisit with its save hooks: the visit is inserted, then the customer's
\* and the business's statistics are recomputed from the visits
RecordVisit(c, b, m) ==
  /\ Len(visits) < MaxVisits
  /\ LET v == [ customer |-> c, business |-> b, visitDate |-> now,
                pointsMultiplier |-> m,
                pointsEarned |-> ComputePointsEarned(businesses[b].pointsPerVisit, m) ]
         vs == Append(visits, v)
     IN  /\ visits' = vs
         /\ customers' = [customers EXCEPT
              ![c].totalVisits = Len(VisitsOfCustomer(vs, c)),
              ![c].totalPointsEarned = SumPointsEarned(VisitsOfCustomer(vs, c))]
         /\ businesses' = [businesses EXCEPT
              ![b].totalVisits = Len(VisitsOfBusiness(vs, b)),
              ![b].totalPointsIssued = SumPointsEarned(VisitsOfBusiness(vs, b)),
              ![b].totalCustomers =
                 Cardinality({vs[i].customer : i \in {j \in DOMAIN vs : vs[j].business = b}})]
  /\ UNCHANGED <<now, redemptions, rewards, req, mark, otherVars>>

\* ------------------------------------------------------------ normalizePhoneNumber
\* the characters that set the groups of a written number apart
Punctuation == {" ", "-", ".", "(", ")"}

WithoutPunctuation(s) == SelectSeq(s, LAMBDA c : c \notin Punctuation)

\* normalizePhoneNumber on the number as received
Normalize ==
  /\ phone.input # NoPhone
  /\ phone.first = NoResult
  /\ phone' = [phone EXCEPT !.first = normalizePhoneNumber(phone.input)]
  /\ UNCHANGED <<storeVars, calendarVars, adminVars, verifyVars, accountVars, webVars, otpReqVars>>

\* normalizePhoneNumber on the string that the first call returned
NormalizeAgain ==
  /\ phone.first.outcome = "value"
  /\ phone.second = NoResult
  /\ phone' = [phone EXCEPT !.second = normalizePhoneNumber(phone.first.value)]
  /\ UNCHANGED <<storeVars, calendarVars, adminVars, verifyVars, accountVars, webVars, otpReqVars>>

\* normalizePhoneNumber on the same number written without punctuation
NormalizeBare ==
  /\ phone.input # NoPhone
  /\ phone.bare = NoResult
  /\ phone' = [phone EXCEPT !.bare = normalizePhoneNumber(WithoutPunctuation(phone.input))]
  /\ UNCHANGED <<storeVars, calendarVars, adminVars, verifyVars, accountVars, webVars, otpReqVars>>

\* ------------------------------------------------------------ reward router
\* A path is the sequence of its segments after /api/rewards, a segment the
\* sequence of its characters.
SegId == <<":", "i", "d">>
SegCode == <<":", "c", "o", "d", "e">>
SegRedemptions == <<"r", "e", "d", "e", "m", "p", "t", "i", "o", "n", "s">>
SegVerify == <<"v", "e", "r", "i", "f", "y">>
SegTest == <<"t", "e", "s", "t">>
SegEndpoint == <<"e", "n", "d", "p", "o", "i", "n", "t">>

\* the GET routes of the router in the order of their registration
GetRoutes ==
  << [ path |-> <<>>, stack |-> <<"authenticateUser", "validatePagination", "getRewards">> ],
     [ path |-> <<SegId>>,
       stack |-> <<"authenticateUser", "validateObjectId", "getRewardById">> ],
     [ path |-> <<SegRedemptions>>,
       stack |-> <<"authenticateUser", "validatePagination", "getRedemptions">> ],
     [ path |-> <<SegVerify, SegCode>>,
       stack |-> <<"authenticateBusiness", "verifyRedemption">> ],
     [ path |-> <<SegTest, SegEndpoint>>, stack |-> <<"test">> ] >>

\* the route pattern matches the path: a segment that starts with a colon is
\* a parameter and matches any segment
MatchesRoute(pattern, path) ==
  /\ Len(pattern) = Len(path)
  /\ \A i \in DOMAIN pattern : Head(pattern[i]) = ":" \/ pattern[i] = path[i]

\* the first route in the order of registration that matches, 0 for none
FirstRoute(routes, path) ==
  IF \E i \in DOMAIN routes : MatchesRoute(routes[i].path, path)
  THEN CHOOSE i \in DOMAIN routes :
         /\ MatchesRoute(routes[i].path, path)
         /\ \A j \in 1 .. (i - 1) : ~MatchesRoute(routes[j].path, path)
  ELSE 0

\* isMongoId: 24 hexadecimal characters
HexDigits == Digits \cup {"a", "b", "c", "d", "e", "f"}

isMongoId(seg) == Len(seg) = 24 /\ \A i \in DOMAIN seg : seg[i] \in HexDigits

\* the _id of the rewards as they are written in a path
ObjectId(c) == [i \in 1 .. 24 |-> IF i = 24 THEN c ELSE "a"]

RewardObjectId == [ r0 |-> ObjectId("0"), r1 |-> ObjectId("1"), r2 |-> ObjectId("2") ]

\* Redemption.find(filter) of getRedemptions: the positions of the caller's
\* redemptions in the collection
getRedemptionsFilter(token) ==
  { i \in DOMAIN redemptions :
      /\ token.type = "business" => redemptions[i].business = token.id
      /\ token.type = "customer" => redemptions[i].customer = token.id }

\* Reward.find(filter) of getRewards
getRewardsFilter(token) ==
  { r \in DOMAIN rewards :
      /\ token.type = "business" => rewards[r].business = token.id
      /\ token.type = "customer" => rewards[r].isActive }

\* getRewardById
getRewardById(path, token) ==
  LET found == { r \in DOMAIN rewards : RewardObjectId[r] = path[1] }
  IN  IF found = {} THEN Response("getRewardById", 404, "Reward not found")
      ELSE IF token.type = "business"
              /\ \E r \in found : rewards[r].business # token.id
      THEN Response("getRewardById", 403, "Access denied")
      ELSE [ Response("getRewardById", 200, "") EXCEPT !.rewards = found ]

\* the functions of a route's stack, run in order until one of them answers
RECURSIVE RunStack(_, _, _)
RunStack(stack, path, token) ==
  LET f == Head(stack)
  IN  IF f \in {"authenticateUser", "authenticateBusiness"} /\ token.type = "none"
      THEN Response(f, 401, "Access denied. No token provided.")
      ELSE IF f = "authenticateBusiness" /\ token.type # "business"
      THEN Response(f, 401, "Invalid token type. Business token required.")
      ELSE IF f = "validateObjectId" /\ ~isMongoId(path[1])
      THEN Response(f, 400, "Validation failed")
      ELSE IF f = "getRewards"
      THEN [ Response(f, 200, "") EXCEPT !.rewards = getRewardsFilter(token) ]
      ELSE IF f = "getRewardById" THEN getRewardById(path, token)
      ELSE IF f = "getRedemptions"
      THEN [ Response(f, 200, "") EXCEPT !.redemptions = getRedemptionsFilter(token) ]
      ELSE IF f = "test" THEN Response(f, 200, "Reward routes are working")
      ELSE RunStack(Tail(stack), path, token)

\* router.handle for GET: the stack of the first matching route, 404 when no
\* route matches
Dispatch(routes, path, token) ==
  LET i == FirstRoute(routes, path)
  IN  IF i = 0 THEN Response("", 404, "") ELSE RunStack(routes[i].stack, path, token)

\* GET /api/rewards/<path> without query parameters, for the paths of at
\* most one segment
Get(path, token) ==
  /\ Len(path) <= 1
  /\ web' = [ path |-> path, token |-> token,
              response |-> Dispatch(GetRoutes, path, token) ]
  /\ UNCHANGED <<storeVars, calendarVars, adminVars, verifyVars, accountVars, phoneVars, otpReqVars>>

\* ------------------------------------------------------------ updateVisit
\* a variant of the removal below that lets pointsEarned through
visitUpdatesKeepingPointsEarned(body) ==
  [f \in DOMAIN body \ {"customer", "business", "visitDate"} |-> body[f]]

\* delete updates.customer / business / visitDate / pointsEarned
visitUpdates(body) ==
  [f \in DOMAIN body \ {"customer", "business", "visitDate", "pointsEarned"} |-> body[f]]

\* what a handler of the business's administration answers
AdminAnswer(op, status, message) ==
  [ op |-> op, rewardId |-> NoOne, status |-> status, message |-> message ]

\* PUT /visits/:id: findOneAndUpdate({_id, business}, updates) with the
\* validators of the updated paths (pointsMultiplier at least 0.1, in tenths)
\* and without the save hooks
UpdateVisit(b, i, body) ==
  /\ LET u == visitUpdates(body)
     IN  IF i \notin DOMAIN visits \/ visits[i].business # b
         THEN /\ rewardAns' = AdminAnswer("updateVisit", 404, "Visit not found")
              /\ UNCHANGED visits
         ELSE IF "pointsMultiplier" \in DOMAIN u /\ u.pointsMultiplier < 1
         THEN /\ rewardAns' = AdminAnswer("updateVisit", 500, "Error updating visit")
              /\ UNCHANGED visits
         ELSE /\ visits' = [visits EXCEPT ![i] = [f \in DOMAIN @ |->
                               IF f \in DOMAIN u THEN u[f] ELSE @[f]]]
              /\ rewardAns' = AdminAnswer("updateVisit", 200, "Visit updated successfully")
  /\ UNCHANGED <<now, redemptions, rewards, businesses, customers, req, mark,
                 calendarVars, verifyVars, accountVars, phoneVars, webVars, otpReqVars>>

\* PUT /business/loyalty-settings: findByIdAndUpdate(businessId,
\* {loyaltySettings}) with the validator of pointsPerVisit (at least 1)
UpdateLoyaltySettings(b, pointsPerVisit) ==
  /\ IF pointsPerVisit < 1
     THEN /\ rewardAns' = AdminAnswer("updateLoyaltySettings", 500,
                                      "Error updating loyalty settings")
          /\ UNCHANGED businesses
     ELSE /\ businesses' = [businesses EXCEPT ![b].pointsPerVisit = pointsPerVisit]
          /\ rewardAns' = AdminAnswer("updateLoyaltySettings", 200,
                                      "Loyalty settings updated successfully")
  /\ UNCHANGED <<now, visits, redemptions, rewards, customers, req, mark,
                 calendarVars, verifyVars, accountVars, phoneVars, webVars, otpReqVars>>

\* ------------------------------------------------------------ updateReward
\* findOneAndUpdate({_id, business}, updates) by the owning business
UpdateRewardPoints(r, n) ==
  /\ rewards[r].pointsRequired # n
  /\ rewards' = [rewards EXCEPT ![r].pointsRequired = n]
  /\ UNCHANGED <<now, visits, redemptions, businesses, customers, req, mark, otherVars>>

UpdateRewardActive(r, a) ==
  /\ rewards[r].isActive # a
  /\ rewards' = [rewards EXCEPT ![r].isActive = a]
  /\ UNCHANGED <<now, visits, redemptions, businesses, customers, req, mark, otherVars>>

\* the paths of a document replaced by the fields that the updates carry
Merge(doc, updates) ==
  [f \in DOMAIN doc |-> IF f \in DOMAIN updates THEN updates[f] ELSE doc[f]]

\* the time pattern of validateReward and of the pre('save') hook:
\* /^([01]?[0-9]|2[0-3]):[0-5][0-9]$/
timeRegex(s) ==
  /\ Len(s) \in {4, 5}
  /\ LET hours == SubSeq(s, 1, Len(s) - 3)
         minutes == SubSeq(s, Len(s) - 1, Len(s))
     IN  /\ s[Len(s) - 2] = ":"
         /\ minutes[1] \in {"0", "1", "2", "3", "4", "5"}
         /\ minutes[2] \in Digits
         /\ \/ Len(hours) = 1 /\ hours[1] \in Digits
            \/ Len(hours) = 2 /\ hours[1] \in {"0", "1"} /\ hours[2] \in Digits
            \/ Len(hours) = 2 /\ hours[1] = "2" /\ hours[2] \in {"0", "1", "2", "3"}

\* validateReward on the fields kept here; title, description, rewardType and
\* rewardValue are taken as well-formed
validateReward(body) ==
  /\ "pointsRequired" \in DOMAIN body /\ body.pointsRequired >= 1
  /\ "maxRedemptionsPerCustomer" \in DOMAIN body => body.maxRedemptionsPerCustomer >= 1
  /\ "maxTotalRedemptions" \in DOMAIN body => body.maxTotalRedemptions >= 1
  /\ "availableDays" \in DOMAIN body => body.availableDays \subseteq Weekdays
  /\ "availableTimeStart" \in DOMAIN body => timeRegex(body.availableTimeStart)
  /\ "availableTimeEnd" \in DOMAIN body => timeRegex(body.availableTimeEnd)

\* the validators of rewardSchema on the given paths of a document
SchemaValidators(doc, paths) ==
  /\ "pointsRequired" \in paths => doc.pointsRequired >= 1
  /\ "maxRedemptionsPerCustomer" \in paths =>
        doc.maxRedemptionsPerCustomer = Unset \/ doc.maxRedemptionsPerCustomer >= 1
  /\ "maxTotalRedemptions" \in paths =>
        doc.maxTotalRedemptions = Unset \/ doc.maxTotalRedemptions >= 1
  /\ "availableDays" \in paths => doc.availableDays \subseteq Weekdays

\* rewardSchema.pre('save'): the error it passes on, "" when it passes none
PreSaveReward(doc) ==
  IF doc.availableTimeStart # NoTime /\ ~timeRegex(doc.availableTimeStart)
  THEN "Invalid time format for availableTimeStart. Use HH:MM format."
  ELSE IF doc.availableTimeEnd # NoTime /\ ~timeRegex(doc.availableTimeEnd)
  THEN "Invalid time format for availableTimeEnd. Use HH:MM format."
  ELSE IF doc.availableTimeStart # NoTime /\ doc.availableTimeEnd # NoTime
          /\ ~StringLess(doc.availableTimeStart, doc.availableTimeEnd)
  THEN "availableTimeStart must be before availableTimeEnd"
  ELSE ""

\* new Reward({...req.body, business}) with the defaults of the schema
NewReward(body, b, t) ==
  [ Merge([ business |-> b, pointsRequired |-> Unset, isActive |-> TRUE,
            maxRedemptionsPerCustomer |-> Unset, maxTotalRedemptions |-> Unset,
            validFrom |-> t, validUntil |-> Unset, availableDays |-> {},
            availableTimeStart |-> NoTime, availableTimeEnd |-> NoTime,
            totalRedemptions |-> 0 ], body)
    EXCEPT !.business = b ]

RewardAnswer(op, rid, status, message) ==
  [ op |-> op, rewardId |-> rid, status |-> status, message |-> message ]

\* POST /rewards: validateReward, then createReward
CreateReward(b, rid, body) ==
  /\ rid \notin DOMAIN rewards
  /\ LET doc == NewReward(body, b, now)
     IN  IF ~validateReward(body)
         THEN /\ rewardAns' = RewardAnswer("createReward", rid, 400, "Validation failed")
              /\ UNCHANGED rewards
         ELSE IF ~SchemaValidators(doc, DOMAIN doc) \/ PreSaveReward(doc) # ""
         THEN /\ rewardAns' = RewardAnswer("createReward", rid, 500, "Error creating reward")
              /\ UNCHANGED rewards
         ELSE /\ rewards' = [r \in DOMAIN rewards \cup {rid} |->
                               IF r = rid THEN doc ELSE rewards[r]]
              /\ rewardAns' = RewardAnswer("createReward", rid, 201,
                                           "Reward created successfully")
  /\ UNCHANGED <<now, visits, redemptions, businesses, customers, req, mark,
                 calendarVars, verifyVars, accountVars, phoneVars, webVars, otpReqVars>>

\* PUT /rewards/:id: updateReward, which no validateReward precedes;
\* findOneAndUpdate runs the schema validators of the updated paths and no
\* pre('save') hook
UpdateReward(b, rid, body) ==
  /\ LET updates == [f \in DOMAIN body \ {"business", "totalRedemptions"} |-> body[f]]
     IN  IF rid \notin DOMAIN rewards \/ rewards[rid].business # b
         THEN /\ rewardAns' = RewardAnswer("updateReward", rid, 404, "Reward not found")
              /\ UNCHANGED rewards
         ELSE IF ~SchemaValidators(Merge(rewards[rid], updates), DOMAIN updates)
         THEN /\ rewardAns' = RewardAnswer("updateReward", rid, 500, "Error updating reward")
              /\ UNCHANGED rewards
         ELSE /\ rewards' = [rewards EXCEPT ![rid] = Merge(@, updates)]
              /\ rewardAns' = RewardAnswer("updateReward", rid, 200,
                                           "Reward updated successfully")
  /\ UNCHANGED <<now, visits, redemptions, businesses, customers, req, mark,
                 calendarVars, verifyVars, accountVars, phoneVars, webVars, otpReqVars>>

\* the weekday and the time of day move on
PassTime(day, time) ==
  /\ wallClock # [day |-> day, time |-> time]
  /\ wallClock' = [day |-> day, time |-> time]
  /\ UNCHANGED <<storeVars, adminVars, verifyVars, accountVars, phoneVars, webVars, otpReqVars>>

\* ------------------------------------------------------------ redeemReward
InFlight(p) == req[p].pc \notin {"idle", "done"}

\* res.status(status).json({success, message, error}); the handler's locals
\* are gone, the request's identity and its outcome stay visible
Respond(p, status, message, error) ==
  [req EXCEPT ![p] = [IdleReq EXCEPT !.pc = "done",
                        !.customer = req[p].customer, !.rewardId = req[p].rewardId,
                        !.id = req[p].id, !.racedWith = req[p].racedWith,
                        !.status = status, !.message = message, !.error = error]]

\* Reward.findById and the isActive check
RedeemStart(p, c, rid, amount) ==
  /\ req[p].pc = "idle"
  /\ Len(redemptions) + Cardinality({q \in Procs : InFlight(q)}) < MaxRedemptions
  /\ LET r0 == [IdleReq EXCEPT !.customer = c, !.rewardId = rid]
     IN  IF rid \notin DOMAIN rewards
         THEN req' = [req EXCEPT ![p] =
                 [r0 EXCEPT !.pc = "done", !.status = 404, !.message = "Reward not found"]]
         ELSE IF ~rewards[rid].isActive
         THEN req' = [req EXCEPT ![p] =
                 [r0 EXCEPT !.pc = "done", !.status = 400, !.message = "Reward is not active"]]
         ELSE req' = [req EXCEPT ![p] =
                 [r0 EXCEPT !.pc = "aggregate", !.amount = amount, !.reward = rewards[rid]]]
  /\ UNCHANGED <<now, visits, redemptions, rewards, businesses, customers, mark, otherVars>>

\* Visit.aggregate and the points check
RedeemAggregate(p) ==
  /\ req[p].pc = "aggregate"
  /\ LET points == VisitPoints(req[p].customer, req[p].reward.business)
         rival == {q \in Procs \ {p} : req[q].pc \in {"available", "save"}
                                      /\ req[q].customer = req[p].customer
                                      /\ req[q].rewardId = req[p].rewardId}
     IN  IF points < req[p].reward.pointsRequired
         THEN req' = Respond(p, 400, "Insufficient points", "")
         ELSE req' = [req EXCEPT ![p].pc = "available", ![p].points = points,
                                 ![p].racedWith = IF rival = {} THEN NoOne
                                                  ELSE CHOOSE q \in rival : TRUE]
  /\ UNCHANGED <<now, visits, redemptions, rewards, businesses, customers, mark, otherVars>>

\* reward.isAvailableForCustomer(customerId) on the reward as loaded
RedeemAvailable(p) ==
  /\ req[p].pc = "available"
  /\ LET a == isAvailableForCustomer(req[p].reward, req[p].rewardId, req[p].customer,
                                     now, wallClock)
     IN  req' = IF a = "throw" THEN Respond(p, 500, "Error redeeming reward", "RangeError")
                ELSE IF a = "no"
                THEN Respond(p, 400, "Reward is not available for redemption", "")
                ELSE [req EXCEPT ![p].pc = "save"]
  /\ UNCHANGED <<now, visits, redemptions, rewards, businesses, customers, mark, otherVars>>

\* new Redemption(...) and redemption.save() up to the insert
RedeemSave(p, code) ==
  /\ req[p].pc = "save"
  /\ LET doc == PreSaveRedemption(
                  NewRedemption(req[p].customer, req[p].reward, req[p].rewardId,
                                req[p].amount, now),
                  TRUE, code, now)
     IN  IF DuplicateKey(redemptions, doc)
         THEN /\ req' = Respond(p, 500, "Error redeeming reward", "E11000 duplicate key")
              /\ UNCHANGED redemptions
         ELSE /\ redemptions' = Append(redemptions, doc)
              /\ req' = [req EXCEPT ![p].pc = "incReward", ![p].doc = doc,
                                    ![p].id = Len(redemptions) + 1]
  /\ UNCHANGED <<now, visits, rewards, businesses, customers, mark, otherVars>>

\* redemptionSchema.post('save') of the new document, one update at a time
RedeemIncReward(p) ==
  /\ req[p].pc = "incReward"
  /\ rewards' = [rewards EXCEPT ![req[p].doc.reward].totalRedemptions =
                                   @ + PostSaveIncrement(IsNewInPostSave(TRUE))]
  /\ req' = [req EXCEPT ![p].pc = "incBusiness"]
  /\ UNCHANGED <<now, visits, redemptions, businesses, customers, mark, otherVars>>

RedeemIncBusiness(p) ==
  /\ req[p].pc = "incBusiness"
  /\ businesses' = [businesses EXCEPT ![req[p].doc.business].totalRedemptions =
                                         @ + PostSaveIncrement(IsNewInPostSave(TRUE))]
  /\ req' = [req EXCEPT ![p].pc = "incCustomer"]
  /\ UNCHANGED <<now, visits, redemptions, rewards, customers, mark, otherVars>>

\* the last update of the hook, then the 201 response
RedeemIncCustomer(p) ==
  /\ req[p].pc = "incCustomer"
  /\ customers' = [customers EXCEPT ![req[p].doc.customer].totalRedemptions =
                                       @ + PostSaveIncrement(IsNewInPostSave(TRUE))]
  /\ req' = Respond(p, 201, "Reward redeemed successfully", "")
  /\ UNCHANGED <<now, visits, redemptions, rewards, businesses, mark, otherVars>>

\* the response has been delivered; the slot serves the next request
RedeemFinish(p) ==
  /\ req[p].pc = "done"
  /\ req' = [req EXCEPT ![p] = IdleReq]
  /\ UNCHANGED <<now, visits, redemptions, rewards, businesses, customers, mark, otherVars>>

\* ------------------------------------------------------------ markAsUsed
\* Redemption.findByCode(code): the caller's copy of the stored document
MarkLoad(m, code) ==
  /\ mark[m].pc = "idle"
  /\ \E i \in DOMAIN redemptions :
       /\ redemptions[i].redemptionCode = code
       /\ mark' = [mark EXCEPT ![m] =
            [IdleMark EXCEPT !.pc = "loaded", !.id = i,
                             !.orig = redemptions[i], !.doc = redemptions[i]]]
  /\ UNCHANGED <<now, visits, redemptions, rewards, businesses, customers, req, otherVars>>

\* redemption.markAsUsed(usedBy, transactionAmount, discountApplied) up to
\* this.save(): throws when the copy is not valid, else assigns
MarkAsUsed(m, usedBy, transactionAmount, discountApplied) ==
  /\ mark[m].pc = "loaded"
  /\ mark' = IF ~isValid(mark[m].doc, now)
             THEN [mark EXCEPT ![m] = [IdleMark EXCEPT !.pc = "failed", !.id = mark[m].id,
                                         !.result = "Redemption is not valid for use"]]
             ELSE [mark EXCEPT ![m].pc = "saving",
                               ![m].doc = markAsUsedAssign(mark[m].doc, usedBy,
                                            transactionAmount, discountApplied, now)]
  /\ UNCHANGED <<now, visits, redemptions, rewards, businesses, customers, req, otherVars>>

\* this.save() of the existing document: pre('save'), the update of the
\* modified paths, post('save')
MarkSave(m, code) ==
  /\ mark[m].pc = "saving"
  /\ LET doc == PreSaveRedemption(mark[m].doc, FALSE, code, now)
         i == mark[m].id
     IN  /\ redemptions' = [redemptions EXCEPT
                              ![i] = SetModifiedPaths(redemptions[i], mark[m].orig, doc)]
         /\ rewards' = [rewards EXCEPT ![doc.reward].totalRedemptions =
                                          @ + PostSaveIncrement(IsNewInPostSave(FALSE))]
         /\ businesses' = [businesses EXCEPT ![doc.business].totalRedemptions =
                                                @ + PostSaveIncrement(IsNewInPostSave(FALSE))]
         /\ customers' = [customers EXCEPT ![doc.customer].totalRedemptions =
                                              @ + PostSaveIncrement(IsNewInPostSave(FALSE))]
         /\ mark' = [mark EXCEPT ![m] = [IdleMark EXCEPT !.pc = "done", !.id = i,
                                           !.result = "ok"]]
  /\ UNCHANGED <<now, visits, req, otherVars>>

\* the caller is done with its copy
MarkFinish(m) ==
  /\ mark[m].pc \in {"failed", "done"}
  /\ mark' = [mark EXCEPT ![m] = IdleMark]
  /\ UNCHANGED <<now, visits, redemptions, rewards, businesses, customers, req, otherVars>>

\* ------------------------------------------------------------ expire sweep
\* Redemption.expireOldRedemptions(): updateMany(filter, {$set: {status: 'expired'}})
RECURSIVE ExpireAll(_, _)
ExpireAll(rs, t) ==
  IF rs = <<>> THEN <<>>
  ELSE <<IF ShouldExpire(Head(rs), t)
         THEN [Head(rs) EXCEPT !.status = "expired"] ELSE Head(rs)>>
       \o ExpireAll(Tail(rs), t)

\* result.modifiedCount: the records the filter matches, each of which changes
modifiedCount(rs, t) == Cardinality({i \in DOMAIN rs : ShouldExpire(rs[i], t)})

\* the call returns modifiedCount(redemptions, now); nothing in the program
\* reads the returned number
ExpireOldRedemptions ==
  /\ redemptions' = ExpireAll(redemptions, now)
  /\ UNCHANGED <<now, visits, rewards, businesses, customers, req, mark, otherVars>>

\* ------------------------------------------------------------ verifyRedemption
\* GET /verify/:code by the authenticated business b
VerifyRedemption(b, code) ==
  /\ LET found == {i \in DOMAIN redemptions : redemptions[i].redemptionCode = code}
         a == [NoAnswer EXCEPT !.business = b, !.code = code]
     IN  IF found = {}
         THEN ver' = [a EXCEPT !.status = 404, !.message = "Redemption code not found"]
         ELSE LET r == redemptions[CHOOSE i \in found : TRUE]
              IN  IF r.business # b
                  THEN ver' = [a EXCEPT !.status = 403, !.message = "Access denied"]
                  ELSE ver' = [a EXCEPT !.status = 200, !.isValid = isValid(r, now)]
  /\ UNCHANGED <<storeVars, calendarVars, adminVars, phoneVars, accountVars, webVars, otpReqVars>>

\* ------------------------------------------------------------ accounts
\* the clock of the account requests, in minutes
TickClock ==
  /\ clock < MaxClock
  /\ clock' = clock + 1
  /\ UNCHANGED <<storeVars, calendarVars, adminVars, phoneVars, verifyVars, accounts, otpExpireMinutes, reg, ans, webVars, otpReqVars>>

\* the server is started with OTP_EXPIRE_MINUTES = minutes
StartServer(minutes) ==
  /\ accounts = <<>>
  /\ clock = 0
  /\ \A p \in Procs : reg[p].pc = "idle"
  /\ otpExpireMinutes # minutes
  /\ otpExpireMinutes' = minutes
  /\ UNCHANGED <<storeVars, calendarVars, adminVars, phoneVars, verifyVars, accounts, clock, reg, ans, webVars, otpReqVars>>

\* registerCustomer up to Customer.findOne
RegisterFind(p, phoneNumber) ==
  /\ reg[p].pc = "idle"
  /\ LET v == validateAndNormalize(phoneNumber)
     IN  reg' = [reg EXCEPT ![p] =
           IF ~v.isValid
           THEN [IdleReg EXCEPT !.pc = "done", !.status = 400,
                                !.message = "Invalid phone number format"]
           ELSE [IdleReg EXCEPT !.pc = "save", !.phoneNumber = v.normalized,
                                !.id = FindCustomer(accounts, v.normalized)]]
  /\ UNCHANGED <<storeVars, calendarVars, adminVars, phoneVars, verifyVars, accounts, clock, otpExpireMinutes, ans, webVars, otpReqVars>>

\* registerCustomer from generateOTP and customer.save() to the answer: the
\* customer found gets a new OTP, otherwise a new customer is inserted under
\* the unique index on phoneNumber
RegisterSave(p, code) ==
  /\ reg[p].pc = "save"
  /\ LET otp == generateOTP(code, otpExpireMinutes, clock)
         i == reg[p].id
     IN  IF i # 0
         THEN /\ accounts' = [accounts EXCEPT ![i].otp = otp]
              /\ reg' = [reg EXCEPT ![p].pc = "done", ![p].status = 200,
                                    ![p].message = "OTP sent to your phone number"]
         ELSE IF DuplicatePhone(accounts, reg[p].phoneNumber)
         THEN /\ reg' = [reg EXCEPT ![p].pc = "done", ![p].status = 500,
                                    ![p].message = "Error registering customer"]
              /\ UNCHANGED accounts
         ELSE /\ accounts' = Append(accounts,
                   [phoneNumber |-> reg[p].phoneNumber, isPhoneVerified |-> FALSE,
                    otp |-> otp])
              /\ reg' = [reg EXCEPT ![p].pc = "done", ![p].status = 201,
                                    ![p].id = Len(accounts) + 1,
                                    ![p].message =
                                      "Customer registered. OTP sent to your phone number"]
  /\ UNCHANGED <<storeVars, calendarVars, adminVars, phoneVars, verifyVars, clock, otpExpireMinutes, ans, webVars, otpReqVars>>

\* the answer has been delivered; the slot serves the next request
RegisterFinish(p) ==
  /\ reg[p].pc = "done"
  /\ reg' = [reg EXCEPT ![p] = IdleReg]
  /\ UNCHANGED <<storeVars, calendarVars, adminVars, phoneVars, verifyVars, accounts, clock, otpExpireMinutes, ans, webVars, otpReqVars>>

\* the verifyOTP request handler
VerifyOTP(phoneNumber, otp) ==
  /\ LET v == validateAndNormalize(phoneNumber)
         i == FindCustomer(accounts, v.normalized)
         a == [NoAuthAnswer EXCEPT !.op = "verifyOTP", !.phoneNumber = v.normalized,
                                   !.otp = otp]
     IN  IF ~v.isValid
         THEN /\ ans' = [a EXCEPT !.status = 400, !.message = "Invalid phone number format"]
              /\ UNCHANGED accounts
         ELSE IF i = 0
         THEN /\ ans' = [a EXCEPT !.status = 404, !.message = "Customer not found"]
              /\ UNCHANGED accounts
         ELSE LET r == verifyOTPMethod(accounts[i], otp, clock)
              IN  /\ accounts' = [accounts EXCEPT ![i] = r.doc]
                  /\ ans' = [a EXCEPT !.status = IF r.success THEN 200 ELSE 400,
                                      !.message = r.message]
  /\ UNCHANGED <<storeVars, calendarVars, adminVars, phoneVars, verifyVars, clock, otpExpireMinutes, reg, webVars, otpReqVars>>

\* verifyOTP up to Customer.findOne: the request holds its own copy of the
\* customer document
VerifyFind(p, phoneNumber, otp) ==
  /\ otpReq[p].pc = "idle"
  /\ LET v == validateAndNormalize(phoneNumber)
         i == FindCustomer(accounts, v.normalized)
     IN  otpReq' = [otpReq EXCEPT ![p] =
           IF ~v.isValid
           THEN [IdleVerify EXCEPT !.pc = "done", !.otp = otp, !.status = 400,
                                   !.message = "Invalid phone number format"]
           ELSE IF i = 0
           THEN [IdleVerify EXCEPT !.pc = "done", !.otp = otp, !.status = 404,
                                   !.message = "Customer not found"]
           ELSE [IdleVerify EXCEPT !.pc = "loaded", !.id = i, !.otp = otp,
                                   !.customer = accounts[i]]]
  /\ UNCHANGED <<storeVars, calendarVars, adminVars, phoneVars, verifyVars, accountVars,
                 webVars, compared>>

\* customer.save() of a loaded customer: $set of the paths of otp and
\* isPhoneVerified that were modified since the document was loaded
SaveCustomer(stored, orig, doc) ==
  IF doc.otp = NoOtp /\ orig.otp # NoOtp
  THEN [stored EXCEPT !.isPhoneVerified = doc.isPhoneVerified, !.otp = NoOtp]
  ELSE IF doc.otp.attempts # orig.otp.attempts
  THEN [stored EXCEPT !.otp.attempts = doc.otp.attempts]
  ELSE stored

\* verifyOTP from customer.verifyOTP(otp) on the request's copy to
\* customer.save() and the answer
VerifyCheck(p) ==
  /\ otpReq[p].pc = "loaded"
  /\ LET orig == otpReq[p].customer
         r == verifyOTPMethod(orig, otpReq[p].otp, clock)
         i == otpReq[p].id
     IN  /\ accounts' = [accounts EXCEPT ![i] = SaveCustomer(accounts[i], orig, r.doc)]
         /\ otpReq' = [otpReq EXCEPT ![p].pc = "done", ![p].customer = r.doc,
                                     ![p].status = IF r.success THEN 200 ELSE 400,
                                     ![p].message = r.message]
         /\ compared' = IF r.message = "Invalid OTP"
                        THEN Append(compared, [id |-> i, code |-> orig.otp.code,
                                               expiresAt |-> orig.otp.expiresAt])
                        ELSE compared
  /\ UNCHANGED <<storeVars, calendarVars, adminVars, phoneVars, verifyVars, clock,
                 otpExpireMinutes, reg, ans, webVars>>

\* the answer has been delivered; the slot serves the next request
VerifyFinish(p) ==
  /\ otpReq[p].pc = "done"
  /\ otpReq' = [otpReq EXCEPT ![p] = IdleVerify]
  /\ UNCHANGED <<storeVars, calendarVars, adminVars, phoneVars, verifyVars, accountVars,
                 webVars, compared>>

\* the resendOTP request handler
ResendOTP(phoneNumber, code) ==
  /\ LET v == validateAndNormalize(phoneNumber)
         i == FindCustomer(accounts, v.normalized)
         a == [NoAuthAnswer EXCEPT !.op = "resendOTP", !.phoneNumber = v.normalized]
     IN  IF ~v.isValid
         THEN /\ ans' = [a EXCEPT !.status = 400, !.message = "Invalid phone number format"]
              /\ UNCHANGED accounts
         ELSE IF i = 0
         THEN /\ ans' = [a EXCEPT !.status = 404, !.message = "Customer not found"]
              /\ UNCHANGED accounts
         ELSE LET timeSinceLastOTP ==
                    clock - (accounts[i].otp.expiresAt - ResendAssumedMinutes)
              IN  IF accounts[i].otp.expiresAt # Unset /\ timeSinceLastOTP < CooldownMinutes
                  THEN /\ ans' = [a EXCEPT !.status = 429,
                              !.message = "Please wait before requesting another OTP",
                              !.retryAfter = (CooldownMinutes - timeSinceLastOTP) * 60]
                       /\ UNCHANGED accounts
                  ELSE /\ accounts' = [accounts EXCEPT ![i].otp =
                                          generateOTP(code, otpExpireMinutes, clock)]
                       /\ ans' = [a EXCEPT !.status = 200,
                                           !.message = "New OTP sent to your phone number"]
  /\ UNCHANGED <<storeVars, calendarVars, adminVars, phoneVars, verifyVars, clock, otpExpireMinutes, reg, webVars, otpReqVars>>

\* ------------------------------------------------------------ specification
\* The whole program with one redeemReward request and one markAsUsed call
\* at a time; they interleave with each other, with the sweep, with
\* recordVisit and updateReward requests and with the clock.
Next ==
  \/ Tick
  \/ RecordVisit(FirstCustomer, FirstBusiness, DefaultMultiplier)
  \/ \E rid \in {FirstReward, MissingRewardId} :
        RedeemStart(FirstProc, FirstCustomer, rid, Unset)
  \/ RedeemAggregate(FirstProc)
  \/ RedeemAvailable(FirstProc)
  \/ \E code \in Codes : RedeemSave(FirstProc, code)
  \/ RedeemIncReward(FirstProc)
  \/ RedeemIncBusiness(FirstProc)
  \/ RedeemIncCustomer(FirstProc)
  \/ RedeemFinish(FirstProc)
  \/ \E m \in Markers, code \in Codes : MarkLoad(m, code)
  \/ \E m \in Markers, a \in MarkAmounts : MarkAsUsed(m, FirstBusiness, a[1], a[2])
  \/ \E m \in Markers, code \in Codes : MarkSave(m, code)
  \/ \E m \in Markers : MarkFinish(m)
  \/ ExpireOldRedemptions

Spec == Init /\ [][Next]_vars

\* Concurrent redeemReward requests: every request slot serves requests, and
\* their steps interleave with recordVisit and updateReward requests.  The
\* clock stands still and no redemption is marked used or expired.
NextRace ==
  \/ \E c \in Customers, b \in Businesses : RecordVisit(c, b, DefaultMultiplier)
  \/ \E r \in RewardIds, n \in PointsRequiredValues : UpdateRewardPoints(r, n)
  \/ \E p \in Procs, c \in Customers, rid \in RewardIds \cup {MissingRewardId} :
        RedeemStart(p, c, rid, Unset)
  \/ \E p \in Procs : RedeemAggregate(p)
  \/ \E p \in Procs : RedeemAvailable(p)
  \/ \E p \in Procs, code \in Codes : RedeemSave(p, code)
  \/ \E p \in Procs : RedeemIncReward(p)
  \/ \E p \in Procs : RedeemIncBusiness(p)
  \/ \E p \in Procs : RedeemIncCustomer(p)
  \/ \E p \in Procs : RedeemFinish(p)

SpecRace == Init /\ [][NextRace]_vars

\* Requests processed one at a time: a recordVisit, updateReward or
\* redeemReward request starts only when no request is being processed.
NoRequest == \A p \in Procs : ~InFlight(p)

NextSeq ==
  \/ /\ NoRequest
     /\ \E c \in Customers, b \in Businesses, m \in Multipliers : RecordVisit(c, b, m)
  \/ /\ NoRequest
     /\ \E r \in RewardIds, n \in PointsRequiredValues : UpdateRewardPoints(r, n)
  \/ /\ NoRequest
     /\ \E r \in RewardIds, a \in BOOLEAN : UpdateRewardActive(r, a)
  \/ \E c \in Customers, rid \in RewardIds \cup {MissingRewardId}, amount \in Amounts :
        RedeemStart(FirstProc, c, rid, amount)
  \/ RedeemAggregate(FirstProc)
  \/ RedeemAvailable(FirstProc)
  \/ \E code \in Codes : RedeemSave(FirstProc, code)
  \/ RedeemIncReward(FirstProc)
  \/ RedeemIncBusiness(FirstProc)
  \/ RedeemIncCustomer(FirstProc)
  \/ RedeemFinish(FirstProc)

SpecSeq == Init /\ [][NextSeq]_vars

\* The creation of redemptions in time: one request slot, whose steps
\* interleave with the clock and with recordVisit and updateReward requests.
NextCreate ==
  \/ Tick
  \/ \E c \in Customers : RecordVisit(c, FirstBusiness, DefaultMultiplier)
  \/ \E r \in RewardIds, n \in PointsRequiredValues : UpdateRewardPoints(r, n)
  \/ \E c \in Customers : RedeemStart(FirstProc, c, FirstReward, Unset)
  \/ RedeemAggregate(FirstProc)
  \/ RedeemAvailable(FirstProc)
  \/ \E code \in Codes : RedeemSave(FirstProc, code)
  \/ RedeemIncReward(FirstProc)
  \/ RedeemIncBusiness(FirstProc)
  \/ RedeemIncCustomer(FirstProc)
  \/ RedeemFinish(FirstProc)

SpecCreate == Init /\ [][NextCreate]_vars

\* Verification in the store: a business looks a code up while redemptions are
\* created and marked used by a business.
NextVerify ==
  \/ Tick
  \/ RecordVisit(FirstCustomer, FirstBusiness, DefaultMultiplier)
  \/ RedeemStart(FirstProc, FirstCustomer, FirstReward, Unset)
  \/ RedeemAggregate(FirstProc)
  \/ RedeemAvailable(FirstProc)
  \/ \E code \in Codes : RedeemSave(FirstProc, code)
  \/ RedeemIncReward(FirstProc)
  \/ RedeemIncBusiness(FirstProc)
  \/ RedeemIncCustomer(FirstProc)
  \/ RedeemFinish(FirstProc)
  \/ \E m \in Markers, code \in Codes : MarkLoad(m, code)
  \/ \E m \in Markers, b \in Businesses : MarkAsUsed(m, b, Unset, Unset)
  \/ \E m \in Markers, code \in Codes : MarkSave(m, code)
  \/ \E m \in Markers : MarkFinish(m)
  \/ \E b \in Businesses, code \in Codes : VerifyRedemption(b, code)

SpecVerify == Init /\ [][NextVerify]_vars

\* One-time passwords: one customer registers, asks for new OTPs and submits
\* codes, one request at a time, while the clock runs.
NextOtp ==
  \/ TickClock
  \/ \E minutes \in OtpExpireMinutesValues : StartServer(minutes)
  \/ \E phoneNumber \in {Phone1Local, PhoneShort} : RegisterFind(FirstProc, phoneNumber)
  \/ \E code \in OtpCodes : RegisterSave(FirstProc, code)
  \/ RegisterFinish(FirstProc)
  \/ \E phoneNumber \in {Phone1Written, Phone2Local, PhoneShort}, otp \in OtpCodes :
        VerifyOTP(phoneNumber, otp)
  \/ \E phoneNumber \in {Phone1Full, Phone2Local, PhoneShort}, code \in OtpCodes :
        ResendOTP(phoneNumber, code)

SpecOtp == Init /\ [][NextOtp]_vars

\* Registration: registerCustomer requests with differently written phone
\* numbers run concurrently.
NextRegister ==
  \/ \E p \in Procs,
        phoneNumber \in {Phone1Local, Phone1Written, Phone1Full, Phone2Local, PhoneShort} :
        RegisterFind(p, phoneNumber)
  \/ \E p \in Procs, code \in OtpCodes : RegisterSave(p, code)
  \/ \E p \in Procs : RegisterFinish(p)

SpecRegister == Init /\ [][NextRegister]_vars

\* Rewards restricted to weekdays: a business sets the days of its reward
\* while the weekday changes, visits are recorded and a customer redeems.
DaysBodies == { [availableDays |-> {"monday"}], [availableDays |-> {}] }

NextDays ==
  \/ Tick
  \/ \E day \in {"monday", "tuesday"} : PassTime(day, Noon)
  \/ RecordVisit(FirstCustomer, FirstBusiness, DefaultMultiplier)
  \/ \E b \in Businesses, body \in DaysBodies : UpdateReward(b, FirstReward, body)
  \/ RedeemStart(FirstProc, FirstCustomer, FirstReward, Unset)
  \/ RedeemAggregate(FirstProc)
  \/ RedeemAvailable(FirstProc)
  \/ \E code \in Codes : RedeemSave(FirstProc, code)
  \/ RedeemIncReward(FirstProc)
  \/ RedeemIncBusiness(FirstProc)
  \/ RedeemIncCustomer(FirstProc)
  \/ RedeemFinish(FirstProc)

SpecDays == Init /\ [][NextDays]_vars

\* Rewards with a time window: businesses create a second reward and update
\* rewards with well-formed, single-digit-hour, out-of-range and reversed
\* times of day.
NewRewardIds == {"r2"}
Morning == <<"0", "9", ":", "0", "0">>
Evening == <<"1", "8", ":", "0", "0">>
Nine == <<"9", ":", "0", "0">>
HalfPastNine == <<"9", ":", "3", "0">>
TwentyFive == <<"2", "5", ":", "0", "0">>
Times == {Morning, Evening, Nine, HalfPastNine, TwentyFive}

CreateBodies ==
  { [pointsRequired |-> 10] }
    \cup { [pointsRequired |-> 10, availableTimeStart |-> a, availableTimeEnd |-> b] :
             a \in Times, b \in Times }
    \cup { [pointsRequired |-> 0, totalRedemptions |-> 1] }

UpdateBodies ==
  { [availableTimeStart |-> Morning, availableTimeEnd |-> Evening],
    [availableTimeStart |-> Evening, availableTimeEnd |-> Morning],
    [availableTimeStart |-> TwentyFive],
    [pointsRequired |-> 0],
    [totalRedemptions |-> 1, isActive |-> FALSE] }

NextReward ==
  \/ Tick
  \/ \E b \in Businesses, rid \in NewRewardIds, body \in CreateBodies :
        CreateReward(b, rid, body)
  \/ \E b \in Businesses, rid \in RewardIds \cup NewRewardIds, body \in UpdateBodies :
        UpdateReward(b, rid, body)

SpecReward == Init /\ [][NextReward]_vars

\* Rewards with a total limit: a business creates a second reward with
\* maxTotalRedemptions, with or without a totalRedemptions of its own in the
\* request body, and a customer redeems either reward.
LimitBodies ==
  { [pointsRequired |-> 10, maxTotalRedemptions |-> 1],
    [pointsRequired |-> 10, maxTotalRedemptions |-> 1, totalRedemptions |-> 1] }

NextCounters ==
  \/ Tick
  \/ RecordVisit(FirstCustomer, FirstBusiness, DefaultMultiplier)
  \/ \E rid \in NewRewardIds, body \in LimitBodies : CreateReward(FirstBusiness, rid, body)
  \/ \E rid \in RewardIds \cup NewRewardIds :
        RedeemStart(FirstProc, FirstCustomer, rid, Unset)
  \/ RedeemAggregate(FirstProc)
  \/ RedeemAvailable(FirstProc)
  \/ \E code \in Codes : RedeemSave(FirstProc, code)
  \/ RedeemIncReward(FirstProc)
  \/ RedeemIncBusiness(FirstProc)
  \/ RedeemIncCustomer(FirstProc)
  \/ RedeemFinish(FirstProc)

SpecCounters == Init /\ [][NextCounters]_vars

\* The points of visits: businesses record visits with a multiplier, update
\* visits and change their pointsPerVisit.
VisitBodies ==
  { [pointsMultiplier |-> 10], [pointsMultiplier |-> 15], [pointsMultiplier |-> 0],
    [pointsEarned |-> 99], [pointsMultiplier |-> 15, pointsEarned |-> 99],
    [customer |-> "c2", business |-> "b2", visitDate |-> 0] }

PointsPerVisitValues == {0, 10, 15}

NextVisits ==
  \/ \E b \in Businesses, m \in Multipliers : RecordVisit(FirstCustomer, b, m)
  \/ \E b \in Businesses, i \in 1 .. MaxVisits, body \in VisitBodies :
        UpdateVisit(b, i, body)
  \/ \E b \in Businesses, n \in PointsPerVisitValues : UpdateLoyaltySettings(b, n)

SpecVisits == Init /\ [][NextVisits]_vars

\* Business rules: a business creates a second reward with a time window or
\* with weekdays, switches rewards off and on, and a customer with or without
\* enough points redeems either reward on different weekdays.
RuleBodies ==
  { [pointsRequired |-> 10],
    [pointsRequired |-> 15],
    [pointsRequired |-> 10, availableTimeStart |-> Morning, availableTimeEnd |-> Evening],
    [pointsRequired |-> 10, availableTimeStart |-> Evening, availableTimeEnd |-> Morning],
    [pointsRequired |-> 10, availableTimeStart |-> TwentyFive, availableTimeEnd |-> Evening],
    [pointsRequired |-> 10, availableDays |-> {"tuesday"}] }

NextRules ==
  \/ \E day \in {"monday", "tuesday"} : PassTime(day, Noon)
  \/ RecordVisit(FirstCustomer, FirstBusiness, DefaultMultiplier)
  \/ \E rid \in NewRewardIds, body \in RuleBodies : CreateReward(FirstBusiness, rid, body)
  \/ \E r \in RewardIds, a \in BOOLEAN : UpdateRewardActive(r, a)
  \/ \E rid \in RewardIds \cup NewRewardIds :
        RedeemStart(FirstProc, FirstCustomer, rid, Unset)
  \/ RedeemAggregate(FirstProc)
  \/ RedeemAvailable(FirstProc)
  \/ \E code \in Codes : RedeemSave(FirstProc, code)
  \/ RedeemIncReward(FirstProc)
  \/ RedeemIncBusiness(FirstProc)
  \/ RedeemIncCustomer(FirstProc)
  \/ RedeemFinish(FirstProc)

SpecRules == Init /\ [][NextRules]_vars

\* Reading through the router: redemptions are created for two customers,
\* and businesses, customers and callers without a token send GET requests.
Tokens ==
  { NoToken } \cup { [ type |-> "business", id |-> b ] : b \in Businesses }
    \cup { [ type |-> "customer", id |-> c ] : c \in Customers }

Paths == { <<>>, <<SegRedemptions>>, <<SegVerify>> }
           \cup { <<RewardObjectId[r]>> : r \in DOMAIN RewardObjectId }

NextRoutes ==
  \/ \E c \in Customers : RecordVisit(c, FirstBusiness, DefaultMultiplier)
  \/ \E c \in Customers : RedeemStart(FirstProc, c, FirstReward, Unset)
  \/ RedeemAggregate(FirstProc)
  \/ RedeemAvailable(FirstProc)
  \/ \E code \in Codes : RedeemSave(FirstProc, code)
  \/ RedeemIncReward(FirstProc)
  \/ RedeemIncBusiness(FirstProc)
  \/ RedeemIncCustomer(FirstProc)
  \/ RedeemFinish(FirstProc)
  \/ \E path \in Paths, token \in Tokens : Get(path, token)

SpecRoutes == Init /\ [][NextRoutes]_vars

\* Rewards with a limit per customer: a business creates a second reward with
\* maxRedemptionsPerCustomer, and the requests of one customer for it run in
\* every request slot, their steps interleaved.
PerCustomerBodies == { [pointsRequired |-> 10, maxRedemptionsPerCustomer |-> 1] }

NextPerCustomer ==
  \/ RecordVisit(FirstCustomer, FirstBusiness, DefaultMultiplier)
  \/ \E rid \in NewRewardIds, body \in PerCustomerBodies :
        CreateReward(FirstBusiness, rid, body)
  \/ \E p \in Procs, rid \in NewRewardIds : RedeemStart(p, FirstCustomer, rid, Unset)
  \/ \E p \in Procs : RedeemAggregate(p)
  \/ \E p \in Procs : RedeemAvailable(p)
  \/ \E p \in Procs, code \in Codes : RedeemSave(p, code)
  \/ \E p \in Procs : RedeemIncReward(p)
  \/ \E p \in Procs : RedeemIncBusiness(p)
  \/ \E p \in Procs : RedeemIncCustomer(p)
  \/ \E p \in Procs : RedeemFinish(p)

SpecPerCustomer == Init /\ [][NextPerCustomer]_vars

\* Rewards with a time window and a clock that moves through the day: a
\* business creates a second reward whose window is written with two-digit or
\* with single-digit hours, and a customer redeems it at several times of day.
QuarterPastNine == <<"0", "9", ":", "1", "5">>
ClockTimes == {Morning, QuarterPastNine, Noon, Evening}

WindowBodies ==
  { [pointsRequired |-> 10, availableTimeStart |-> Morning, availableTimeEnd |-> Evening],
    [pointsRequired |-> 10, availableTimeStart |-> Nine, availableTimeEnd |-> HalfPastNine],
    [pointsRequired |-> 10, availableTimeStart |-> Nine, availableTimeEnd |-> Evening] }

NextWindow ==
  \/ \E time \in ClockTimes : PassTime("monday", time)
  \/ RecordVisit(FirstCustomer, FirstBusiness, DefaultMultiplier)
  \/ \E rid \in NewRewardIds, body \in WindowBodies : CreateReward(FirstBusiness, rid, body)
  \/ \E rid \in NewRewardIds : RedeemStart(FirstProc, FirstCustomer, rid, Unset)
  \/ RedeemAggregate(FirstProc)
  \/ RedeemAvailable(FirstProc)
  \/ \E code \in Codes : RedeemSave(FirstProc, code)
  \/ RedeemIncReward(FirstProc)
  \/ RedeemIncBusiness(FirstProc)
  \/ RedeemIncCustomer(FirstProc)
  \/ RedeemFinish(FirstProc)

SpecWindow == Init /\ [][NextWindow]_vars

\* One-time passwords under concurrent requests: a customer registers once and
\* verifyOTP requests for that customer run concurrently, each on its own copy
\* of the customer document.
NextOtpRace ==
  \/ accounts = <<>> /\ RegisterFind(FirstProc, Phone1Local)
  \/ \E code \in OtpCodes : RegisterSave(FirstProc, code)
  \/ RegisterFinish(FirstProc)
  \/ \E p \in Procs, phoneNumber \in {Phone1Written, PhoneShort}, otp \in OtpCodes :
        VerifyFind(p, phoneNumber, otp)
  \/ \E p \in Procs : VerifyCheck(p)
  \/ \E p \in Procs : VerifyFinish(p)

SpecOtpRace == Init /\ [][NextOtpRace]_vars

\* Concurrent markAsUsed calls: a customer redeems a reward, and two callers
\* load the redemption by its code, each into its own copy, and mark it used
\* on behalf of either business.
NextMarkRace ==
  \/ RecordVisit(FirstCustomer, FirstBusiness, DefaultMultiplier)
  \/ RedeemStart(FirstProc, FirstCustomer, FirstReward, Unset)
  \/ RedeemAggregate(FirstProc)
  \/ RedeemAvailable(FirstProc)
  \/ \E code \in Codes : RedeemSave(FirstProc, code)
  \/ RedeemIncReward(FirstProc)
  \/ RedeemIncBusiness(FirstProc)
  \/ RedeemIncCustomer(FirstProc)
  \/ RedeemFinish(FirstProc)
  \/ \E m \in ConcurrentMarkers, code \in Codes : MarkLoad(m, code)
  \/ \E m \in ConcurrentMarkers, b \in Businesses : MarkAsUsed(m, b, Unset, Unset)
  \/ \E m \in ConcurrentMarkers, code \in Codes : MarkSave(m, code)
  \/ \E m \in ConcurrentMarkers : MarkFinish(m)

SpecMarkRace == Init /\ [][NextMarkRace]_vars

\* Phone numbers as they are written: ten digits, eleven digits with and
\* without the leading 1, with a leading +, too short, and each of them with
\* up to two more characters put in anywhere.
InsertAt(s, i, c) == SubSeq(s, 1, i) \o <<c>> \o SubSeq(s, i + 1, Len(s))

BarePhones ==
  { Phone1Local, <<"1">> \o Phone1Local, <<"2">> \o Phone1Local, Phone1Full,
    <<"+">> \o Phone1Local, Tail(Phone1Local), PhoneShort }

Inserted(S) ==
  UNION { { InsertAt(s, i, c) : i \in 0 .. Len(s), c \in Punctuation \cup {"+"} } : s \in S }

RawPhones == BarePhones \cup Inserted(BarePhones) \cup Inserted(Inserted(BarePhones))

InitPhone == \E x \in RawPhones : InitWith([NoCall EXCEPT !.input = x])

NextPhone ==
  \/ Normalize
  \/ NormalizeAgain
  \/ NormalizeBare

SpecPhone == InitPhone /\ [][NextPhone]_vars

\* ============================================================ properties
\* The points of customer c at business b that redemptions hold: the sum of
\* pointsUsed over the redemptions in status pending, confirmed or used.
HoldingStatuses == {"pending", "confirmed", "used"}

HeldPoints(c, b) ==
  SumPointsUsed(SelectSeq(redemptions,
    LAMBDA r : r.customer = c /\ r.business = b /\ r.status \in HoldingStatuses))

\* C1: with requests processed one at a time, the points held by a customer's
\* pending, confirmed and used redemptions at a business never exceed the
\* points the customer earned at that business.
C1_HeldNeverExceedsEarned ==
  \A c \in Customers, b \in Businesses : HeldPoints(c, b) <= VisitPoints(c, b)

\* C2: two redeemReward requests of one customer for one reward that run
\* concurrently (the second reads the balance after the first has read it and
\* before the first has saved) while the balance is exactly pointsRequired,
\* and of which none fails on a code collision, end with exactly one
\* redemption created and one 'Insufficient points' answer.
RedemptionsOf(c, b) ==
  {i \in DOMAIN redemptions : redemptions[i].customer = c /\ redemptions[i].business = b}

Created(p) == req[p].pc = "done" /\ req[p].status = 201

Refused(p) ==
  req[p].pc = "done" /\ req[p].status = 400 /\ req[p].message = "Insufficient points"

C2_ExactlyOneSucceeds ==
  \A p \in Procs, q \in Procs :
    ( /\ p # q
      /\ req[p].pc = "done" /\ req[q].pc = "done"
      /\ req[p].status # 500 /\ req[q].status # 500
      /\ req[q].racedWith = p
      /\ req[p].customer = req[q].customer
      /\ req[p].rewardId = req[q].rewardId
      /\ req[p].rewardId \in DOMAIN rewards
      /\ LET rw == rewards[req[p].rewardId]
         IN  /\ VisitPoints(req[p].customer, rw.business) = rw.pointsRequired
             /\ \A i \in RedemptionsOf(req[p].customer, rw.business) :
                  /\ i \in {req[p].id, req[q].id}
                  /\ redemptions[i].pointsUsed = rw.pointsRequired )
    => \/ Created(p) /\ Refused(q)
       \/ Created(q) /\ Refused(p)

\* C3: for every business the customer has visited, availablePoints of
\* getPointsBalance is the points earned there minus the points of the
\* redemptions there in status pending, confirmed or used; an expired or
\* cancelled redemption does not reduce it.
C3_AvailablePointsIsBalance ==
  \A c \in Customers, b \in Businesses :
    HasVisited(c, b) => availablePoints(c, b) = VisitPoints(c, b) - HeldPoints(c, b)

\* C4: a redemption in status used, expired or cancelled keeps that status,
\* and the only status changes are pending->confirmed, confirmed->used,
\* pending|confirmed->expired and pending|confirmed->cancelled, whatever the
\* interleaving of markAsUsed with expireOldRedemptions.
AllowedTransitions ==
  { <<"pending", "confirmed">>, <<"confirmed", "used">>,
    <<"pending", "expired">>, <<"confirmed", "expired">>,
    <<"pending", "cancelled">>, <<"confirmed", "cancelled">> }

C4_OnlyAllowedTransitions ==
  [][\A i \in DOMAIN redemptions :
       redemptions'[i].status # redemptions[i].status
         => <<redemptions[i].status, redemptions'[i].status>> \in AllowedTransitions]_vars

\* C5: markAsUsed, called on a redemption whose status is confirmed, whose
\* expiresAt is later than now and whose usedAt is unset, sets status to used,
\* usedAt to now and usedBy to the given actor, and its save stores them; called
\* on any other redemption it fails with an error and changes nothing stored.
C5_MarkAsUsedContract ==
  [][\A m \in Markers :
       /\ (mark[m].pc = "loaded" /\ mark'[m].pc # "loaded")
            => LET d == mark[m].doc
               IN  IF d.status = "confirmed" /\ d.expiresAt > now /\ d.usedAt = Unset
                   THEN /\ mark'[m].pc = "saving"
                        /\ mark'[m].doc.status = "used"
                        /\ mark'[m].doc.usedAt = now
                        /\ mark'[m].doc.usedBy = FirstBusiness
                        /\ redemptions' = redemptions
                   ELSE /\ mark'[m].pc = "failed"
                        /\ mark'[m].result = "Redemption is not valid for use"
                        /\ redemptions' = redemptions
       /\ (mark[m].pc = "saving" /\ mark'[m].pc # "saving")
            => LET r == redemptions'[mark[m].id]
               IN  /\ r.status = "used"
                   /\ r.usedAt = mark[m].doc.usedAt
                   /\ r.usedBy = mark[m].doc.usedBy]_vars

\* a markAsUsed call has failed on a redemption that is stored as confirmed
\* and has reached its expiry date
C5_Witness ==
  \E m \in Markers :
    /\ mark[m].pc = "failed"
    /\ redemptions[mark[m].id].status = "confirmed"
    /\ redemptions[mark[m].id].expiresAt <= now

\* C6: once a redeemReward request has answered, the totalRedemptions of each
\* reward, business and customer is the number of redemptions created for it:
\* one per new redemption, none for a later save or for the sweep.
Creating == {p \in Procs : req[p].pc \in {"incReward", "incBusiness", "incCustomer"}}

C6_CountersCountRedemptions ==
  Creating = {} =>
    /\ \A r \in DOMAIN rewards : rewards[r].totalRedemptions =
         Cardinality({i \in DOMAIN redemptions : redemptions[i].reward = r})
    /\ \A b \in Businesses : businesses[b].totalRedemptions =
         Cardinality({i \in DOMAIN redemptions : redemptions[i].business = b})
    /\ \A c \in Customers : customers[c].totalRedemptions =
         Cardinality({i \in DOMAIN redemptions : redemptions[i].customer = c})

\* C7: a collision of the generated redemptionCode with a stored one never
\* makes a redeemReward request end with an error response.
C7_CollisionNeverFailsRequest ==
  \A p \in Procs :
    ~(req[p].pc = "done" /\ req[p].status = 500 /\ req[p].error = "E11000 duplicate key")

\* C8: no two stored redemptions have the same redemptionCode.
C8_CodesUnique ==
  \A i \in DOMAIN redemptions, j \in DOMAIN redemptions :
    redemptions[i].redemptionCode = redemptions[j].redemptionCode => i = j

\* two redemptions are stored and a request has drawn a code already in use
C8_Witness ==
  /\ Len(redemptions) = 2
  /\ \E p \in Procs : req[p].pc = "done" /\ req[p].error = "E11000 duplicate key"

\* C9: redemptionCode, pointsUsed, customer, business and reward of a stored
\* redemption are the same in every later state.
CreationFields == {"redemptionCode", "pointsUsed", "customer", "business", "reward"}

C9_CreationFieldsNeverChange ==
  [][\A i \in DOMAIN redemptions : \A f \in CreationFields :
       redemptions'[i][f] = redemptions[i][f]]_vars

\* a stored redemption has been saved a second time, by markAsUsed
C9_Witness ==
  \E i \in DOMAIN redemptions :
    redemptions[i].status = "used" /\ redemptions[i].redemptionCode \in Codes

C11_OwnBusinessOnly ==
  [][/\ ver' # ver =>
          \A i \in DOMAIN redemptions :
            (redemptions[i].redemptionCode = ver'.code
               /\ redemptions[i].business # ver'.business) => ver'.status = 403
     /\ \A i \in DOMAIN redemptions :
          (redemptions[i].status # "used" /\ redemptions'[i].status = "used")
            => redemptions'[i].usedBy = redemptions'[i].business]_vars

\* C12: one expireOldRedemptions call sets to expired exactly the redemptions
\* in status pending or confirmed whose expiresAt is earlier than now and
\* returns their number; a call right after it changes nothing and returns 0.
Swept(r, t) ==
  IF r.status \in {"pending", "confirmed"} /\ r.expiresAt < t
  THEN [r EXCEPT !.status = "expired"] ELSE r

C12_SweepExpiresOnce ==
  [][/\ LET after == ExpireAll(redemptions, now)
        IN  /\ \A i \in DOMAIN redemptions : after[i] = Swept(redemptions[i], now)
            /\ modifiedCount(redemptions, now) =
                 Cardinality({i \in DOMAIN redemptions : after[i] # redemptions[i]})
            /\ ExpireAll(after, now) = after
            /\ modifiedCount(after, now) = 0
     /\ (\E i \in DOMAIN redemptions :
           redemptions[i].status # "expired" /\ redemptions'[i].status = "expired")
          => /\ DOMAIN redemptions' = DOMAIN redemptions
             /\ \A i \in DOMAIN redemptions : redemptions'[i] = Swept(redemptions[i], now)]_vars

\* a sweep has expired one redemption and has left alone a used one that is
\* past its expiry date too
C12_Witness ==
  \E i \in DOMAIN redemptions, j \in DOMAIN redemptions :
    /\ redemptions[i].status = "expired"
    /\ redemptions[j].status = "used" /\ redemptions[j].expiresAt < now

\* A step of a verifyOTP request, and the customer it is about.
VerifyOTPStep ==
  /\ ans'.op = "verifyOTP"
  /\ ans' # ans \/ accounts' # accounts
  /\ UNCHANGED <<reg, clock, otpExpireMinutes>>

Subject == FindCustomer(accounts, ans'.phoneNumber)

C14_OtpUsedOnce ==
  [][(VerifyOTPStep /\ Subject # 0) =>
       LET o == accounts[Subject].otp
       IN  /\ (o.code # NoCode /\ ans'.otp = o.code /\ clock < o.expiresAt /\ o.attempts < 3)
                => /\ ans'.status = 200
                   /\ accounts'[Subject].isPhoneVerified
                   /\ accounts'[Subject].otp = NoOtp
           /\ o.code = NoCode
                => /\ ans'.status = 400
                   /\ ans'.message = "No OTP found"
                   /\ accounts' = accounts]_vars

\* the code that verified the phone has been submitted a second time
C14_Witness ==
  /\ ans.op = "verifyOTP"
  /\ ans.message = "No OTP found"
  /\ \E i \in DOMAIN accounts :
       accounts[i].phoneNumber = ans.phoneNumber /\ accounts[i].isPhoneVerified

\* C15: a customer's new OTP is issued at least 60 seconds after the previous
\* one was issued (expiresAt minus the configured lifetime), and a resendOTP
\* request inside that window answers 429 with the remaining seconds and
\* leaves the stored OTP unchanged.
Issued(i) ==
  /\ accounts'[i].otp # accounts[i].otp
  /\ accounts'[i].otp.code # NoCode
  /\ accounts'[i].otp.attempts = 0

ResendOTPStep ==
  /\ ans'.op = "resendOTP"
  /\ ans' # ans \/ accounts' # accounts
  /\ UNCHANGED <<reg, clock, otpExpireMinutes>>

C15_ResendCooldown ==
  [][/\ \A i \in DOMAIN accounts :
          (Issued(i) /\ accounts[i].otp.expiresAt # Unset)
            => (accounts'[i].otp.expiresAt - otpExpireMinutes)
                 - (accounts[i].otp.expiresAt - otpExpireMinutes) >= 1
     /\ (ResendOTPStep /\ Subject # 0) =>
          LET o == accounts[Subject].otp
              since == clock - (o.expiresAt - otpExpireMinutes)
          IN  (o.expiresAt # Unset /\ since < 1) =>
                /\ ans'.status = 429
                /\ ans'.retryAfter = (1 - since) * 60
                /\ accounts' = accounts]_vars

\* C20: no two customers have the same normalized phone number, every stored
\* phone number is its own normalized form, and a registerCustomer request
\* that found a customer with its normalized number creates no customer and
\* gives that customer a new OTP.
C20_OneCustomerPerPhone ==
  [][/\ \A i \in DOMAIN accounts', j \in DOMAIN accounts' :
          validateAndNormalize(accounts'[i].phoneNumber).normalized
            = validateAndNormalize(accounts'[j].phoneNumber).normalized => i = j
     /\ \A i \in DOMAIN accounts' :
          /\ validateAndNormalize(accounts'[i].phoneNumber).isValid
          /\ validateAndNormalize(accounts'[i].phoneNumber).normalized
               = accounts'[i].phoneNumber
     /\ \A p \in Procs :
          (reg[p].pc = "save" /\ reg'[p].pc = "done" /\ reg[p].id # 0)
            => /\ Len(accounts') = Len(accounts)
               /\ reg'[p].status = 200
               /\ accounts'[reg[p].id].otp.code # NoCode
               /\ accounts'[reg[p].id].otp.attempts = 0]_vars

\* of two concurrent registrations of one number, written differently, the
\* second insert has been refused
C20_Witness ==
  /\ Len(accounts) = 1
  /\ \E p \in Procs : reg[p].pc = "done" /\ reg[p].status = 500

\* C16: a reward whose availableDays is ['monday'] is refused on every other
\* weekday whatever the balance, is refused on Monday when the balance is
\* below pointsRequired, and on Monday with a sufficient balance passes the
\* availability check, so that its redemption is created.
MondayOnly(p) == req[p].reward.availableDays = {"monday"}

C16_MondayOnlyReward ==
  [][\A p \in Procs :
       /\ (req[p].pc = "aggregate" /\ req'[p].pc # "aggregate" /\ MondayOnly(p)
             /\ VisitPoints(req[p].customer, req[p].reward.business)
                   < req[p].reward.pointsRequired)
            => req'[p].pc = "done" /\ req'[p].status >= 400
       /\ (req[p].pc = "available" /\ req'[p].pc # "available" /\ MondayOnly(p)
             /\ wallClock.day # "monday")
            => req'[p].pc = "done" /\ req'[p].status >= 400
       /\ (req[p].pc = "available" /\ req'[p].pc # "available" /\ MondayOnly(p)
             /\ wallClock.day = "monday"
             /\ isCurrentlyValid(req[p].reward, now)
             /\ req[p].points >= req[p].reward.pointsRequired)
            => req'[p].pc = "save"]_vars

\* C17: every stored reward that has both availableTimeStart and
\* availableTimeEnd has them in the form HH:MM with HH in 00..23 and MM in
\* 00..59 and the start lexically before the end, whether it was written by
\* createReward or by updateReward.
HHMM(s) ==
  /\ Len(s) = 5
  /\ s[3] = ":"
  /\ \/ s[1] \in {"0", "1"} /\ s[2] \in Digits
     \/ s[1] = "2" /\ s[2] \in {"0", "1", "2", "3"}
  /\ s[4] \in {"0", "1", "2", "3", "4", "5"}
  /\ s[5] \in Digits

C17_StoredTimeWindows ==
  \A r \in DOMAIN rewards :
    (rewards[r].availableTimeStart # NoTime /\ rewards[r].availableTimeEnd # NoTime)
      => /\ HHMM(rewards[r].availableTimeStart)
         /\ HHMM(rewards[r].availableTimeEnd)
         /\ StringLess(rewards[r].availableTimeStart, rewards[r].availableTimeEnd)

\* C18: the outcome of redeemReward does not depend on the cached counters:
\* the availability check of a request gives the answer it would give on the
\* same reward with any other value of totalRedemptions (redeemReward loads
\* no Business and no Customer document before it decides).
CounterValues == 0 .. MaxRedemptions

C18_CountersNeverDecide ==
  [][\A p \in Procs, n \in CounterValues :
       (req[p].pc = "available" /\ req'[p].pc # "available")
         => (req'[p].pc = "save"
               <=> isAvailableForCustomer([req[p].reward EXCEPT !.totalRedemptions = n],
                                          req[p].rewardId, req[p].customer,
                                          now, wallClock) = "yes")]_vars

TenDigits(s) == Len(s) = 10 /\ \A i \in DOMAIN s : s[i] \in Digits

C21_NormalizeIdempotent ==
  /\ phone.second # NoResult => phone.second = phone.first
  /\ (phone.first # NoResult /\ phone.bare # NoResult
        /\ "value" \in {phone.first.outcome, phone.bare.outcome})
       => phone.first = phone.bare
  /\ (phone.first # NoResult /\ TenDigits(phone.input))
       => phone.first = [ outcome |-> "value", value |-> <<"+", "1">> \o phone.input ]

\* a number written with parentheses and a dash has been normalized, and its
\* result normalized again
C21_Witness ==
  /\ "(" \in {phone.input[i] : i \in DOMAIN phone.input}
  /\ "-" \in {phone.input[i] : i \in DOMAIN phone.input}
  /\ phone.first.outcome = "value"
  /\ phone.second.outcome = "value"
  /\ phone.bare.outcome = "value"
  /\ Len(phone.first.value) = 12

\* C22: a createReward request that is refused is answered 400 and stores no
\* reward, and a redeemReward request that ends before its redemption is
\* written (reward inactive, insufficient points, reward not available) is
\* answered 400, or 404 for an unknown reward, and stores no redemption;
\* neither is answered 500.
C22_RuleFailuresAre400 ==
  [][/\ (rewardAns' # rewardAns /\ rewardAns'.op = "createReward")
          => /\ rewardAns'.status \in {201, 400}
             /\ rewardAns'.status = 400 => rewards' = rewards
     /\ \A p \in Procs :
          (req[p].pc \in {"idle", "aggregate", "available"} /\ req'[p].pc = "done")
            => /\ req'[p].status \in {400, 404}
               /\ redemptions' = redemptions]_vars

\* C23: a GET request to /redemptions with the token of a business or of a
\* customer is answered by getRedemptions with the redemptions of that
\* business or customer.
C23_RedemptionsRouted ==
  (web.path = <<SegRedemptions>> /\ web.token # NoToken)
    => /\ web.response.handler = "getRedemptions"
       /\ web.response.redemptions = getRedemptionsFilter(web.token)

\* C24: verifyOTP reports the first check that fails in the order: no stored
\* OTP, expired, attempts at 3, code mismatch.  A request refused for one of
\* the first three leaves the customer as it was, a mismatch adds 1 to the
\* attempts and changes nothing else, and an expired OTP is refused whatever
\* the submitted code.  OTPService.verifyOTP decides in the same order.
FirstFailure(o, inputOTP, t) ==
  IF o.code = NoCode THEN "NO_OTP"
  ELSE IF o.expiresAt < t THEN "EXPIRED"
  ELSE IF o.attempts >= 3 THEN "TOO_MANY_ATTEMPTS"
  ELSE IF o.code # inputOTP THEN "INVALID_OTP"
  ELSE "VERIFIED"

MessageOf ==
  [ NO_OTP |-> "No OTP found", EXPIRED |-> "OTP has expired",
    TOO_MANY_ATTEMPTS |-> "Too many attempts. Please request a new OTP",
    INVALID_OTP |-> "Invalid OTP", VERIFIED |-> "Phone number verified successfully" ]

C24_ChecksInOrder ==
  [][(VerifyOTPStep /\ Subject # 0) =>
       LET o == accounts[Subject].otp
           first == FirstFailure(o, ans'.otp, clock)
       IN  /\ ans'.message = MessageOf[first]
           /\ ans'.status = IF first = "VERIFIED" THEN 200 ELSE 400
           /\ first \in {"NO_OTP", "EXPIRED", "TOO_MANY_ATTEMPTS"} => accounts' = accounts
           /\ first = "INVALID_OTP" =>
                accounts' = [accounts EXCEPT ![Subject].otp.attempts = o.attempts + 1]
           /\ otpServiceVerifyOTP(o.code, ans'.otp, o.expiresAt, o.attempts, clock) = first]_vars

\* the stored code has been submitted after its expiry, with the attempts
\* used up, and was refused as expired
C24_Witness ==
  /\ ans.op = "verifyOTP"
  /\ ans.message = "OTP has expired"
  /\ \E i \in DOMAIN accounts :
       /\ accounts[i].phoneNumber = ans.phoneNumber
       /\ accounts[i].otp.code = ans.otp
       /\ accounts[i].otp.attempts = 3
       /\ accounts[i].otp.expiresAt < clock

\* C25: the number of redemptions stored for a reward with
\* maxTotalRedemptions = N never exceeds N, for redeemReward requests that
\* are processed one at a time.
RedemptionsOfReward(r) == { i \in DOMAIN redemptions : redemptions[i].reward = r }

C25_TotalLimitKept ==
  \A r \in DOMAIN rewards :
    Truthy(rewards[r].maxTotalRedemptions)
      => Cardinality(RedemptionsOfReward(r)) <= rewards[r].maxTotalRedemptions

\* C26: the number of stored redemptions of one customer against a reward
\* with maxRedemptionsPerCustomer = K, whatever their status, never exceeds
\* K, also when the customer's requests run concurrently.
C26_PerCustomerLimitKept ==
  \A r \in DOMAIN rewards, c \in Customers :
    Truthy(rewards[r].maxRedemptionsPerCustomer)
      => CustomerRedemptions(c, r) <= rewards[r].maxRedemptionsPerCustomer

\* ---------------------------------------------------------------------
\* the frame of the sweep

\* a step of expireOldRedemptions that modified at least one document
SweepStep ==
  \E i \in DOMAIN redemptions :
    /\ i \in DOMAIN redemptions'
    /\ redemptions[i].status # "expired"
    /\ redemptions'[i].status = "expired"

\* C27: expireOldRedemptions changes nothing but the status of the pending
\* and confirmed redemptions whose expiresAt is before now, which becomes
\* expired; redemptions that are used, expired or cancelled, or not yet past
\* their expiresAt, stay as they are, and so do the visits, the rewards, the
\* counters and the requests in flight, also when the sweep runs between the
\* steps of other requests
C27_SweepChangesOnlyStatus ==
  [][SweepStep =>
       /\ DOMAIN redemptions' = DOMAIN redemptions
       /\ \A i \in DOMAIN redemptions :
            IF /\ redemptions[i].status \in {"pending", "confirmed"}
               /\ redemptions[i].expiresAt < now
            THEN redemptions'[i] = [redemptions[i] EXCEPT !.status = "expired"]
            ELSE redemptions'[i] = redemptions[i]
       /\ UNCHANGED <<now, visits, rewards, businesses, customers, req, mark>>]_vars

\* the sweep has expired a redemption that a markAsUsed request had loaded
\* as confirmed and not yet saved, and has left a redemption alone that is
\* not yet past its expiresAt
C27_Witness ==
  \E m \in Markers, j \in DOMAIN redemptions :
    /\ mark[m].pc \in {"loaded", "saving"}
    /\ mark[m].id \in DOMAIN redemptions
    /\ mark[m].orig.status \in {"pending", "confirmed"}
    /\ redemptions[mark[m].id].status = "expired"
    /\ j # mark[m].id
    /\ redemptions[j].status \in {"pending", "confirmed"}
    /\ redemptions[j].expiresAt >= now

\* ---------------------------------------------------------------------
\* the time window of a reward

\* the time of day that H:MM or HH:MM denotes, in minutes after midnight
DigitValue(c) == CodeUnit(c) - 1

MinuteOfDay(s) ==
  LET hours == SubSeq(s, 1, Len(s) - 3)
      h == IF Len(hours) = 1 THEN DigitValue(hours[1])
           ELSE 10 * DigitValue(hours[1]) + DigitValue(hours[2])
  IN  60 * h + 10 * DigitValue(s[Len(s) - 1]) + DigitValue(s[Len(s)])

\* C28: the availability check of a request for a reward with both
\* availableTimeStart and availableTimeEnd, valid and unrestricted otherwise,
\* lets the request through exactly when the time of day is at or after the
\* start and at or before the end, for every window that the validation stored
\* (single-digit hours such as 9:00 included).
C28_WindowInclusive ==
  [][\A p \in Procs :
       (/\ req[p].pc = "available"
        /\ req'[p].pc # "available"
        /\ req[p].reward.availableTimeStart # NoTime
        /\ req[p].reward.availableTimeEnd # NoTime
        /\ req[p].reward.availableDays = {}
        /\ ~Truthy(req[p].reward.maxRedemptionsPerCustomer)
        /\ isCurrentlyValid(req[p].reward, now))
         => (req'[p].pc = "save"
               <=> /\ MinuteOfDay(req[p].reward.availableTimeStart)
                        <= MinuteOfDay(wallClock.time)
                   /\ MinuteOfDay(wallClock.time)
                        <= MinuteOfDay(req[p].reward.availableTimeEnd))]_vars

\* ---------------------------------------------------------------------
\* the attempts limit under concurrent requests

\* the wrong codes that were compared with the code of one generated OTP
WrongCompares(e) == {k \in DOMAIN compared : compared[k] = e}

\* C29: the attempts of a stored OTP, and of every copy a request holds, are
\* between 0 and 3, and at most 3 wrong codes are compared with the code of
\* one generated OTP, however the verifyOTP requests interleave.
C29_AtMostThreeWrongCodes ==
  /\ \A i \in DOMAIN accounts :
       accounts[i].otp.attempts # Unset => accounts[i].otp.attempts \in 0 .. MaxAttempts
  /\ \A p \in Procs :
       otpReq[p].customer.otp.attempts # Unset
         => otpReq[p].customer.otp.attempts \in 0 .. MaxAttempts
  /\ \A k \in DOMAIN compared : Cardinality(WrongCompares(compared[k])) <= MaxAttempts

\* ---------------------------------------------------------------------
\* a redemption is used once

\* C30: a markAsUsed call succeeds only on a redemption that is not stored as
\* used, so that of the calls on one redemption at most one succeeds, also when
\* they run on separately loaded copies; the usedAt and usedBy of a redemption
\* stored as used never change; and a redemption is stored with status used
\* exactly when its usedAt is set.
C30_UsedAtMostOnce ==
  [][/\ \A m \in ConcurrentMarkers :
          (mark[m].pc = "saving" /\ mark'[m].pc = "done" /\ mark'[m].result = "ok")
            => redemptions[mark[m].id].status # "used"
     /\ \A i \in DOMAIN redemptions :
          redemptions[i].status = "used"
            => /\ redemptions'[i].usedAt = redemptions[i].usedAt
               /\ redemptions'[i].usedBy = redemptions[i].usedBy
     /\ \A i \in DOMAIN redemptions' :
          redemptions'[i].status = "used" <=> redemptions'[i].usedAt # Unset]_vars

====
